---- MODULE Spec2Model ----
(***************************************************************************)
(* Trade lifecycle and exit-level detection engine of asistrader.           *)
(*                                                                          *)
(* The store (trades, exit levels, market data) is the model's state; one   *)
(* action per service operation.  Prices are integers, a fraction such as   *)
(* the weighted exit price is a pair <<numerator, denominator>> compared by *)
(* cross-multiplication, and units_pct is held in basis points              *)
(* (PctScale = 100%), so units * units_pct is exact where the code uses     *)
(* binary floating point.  A nullable column is None (the empty tuple) or   *)
(* Some(v) (a one-element tuple).                                           *)
(***************************************************************************)
EXTENDS Integers, Sequences, FiniteSets, TLC

VARIABLES trades, levels, next_id, bars, result

vars == <<trades, levels, next_id, bars, result>>

(***************************************************************************)
(* Bounds of the model.                                                     *)
(***************************************************************************)
MaxBars == 2
MaxLevelId == 5

(***************************************************************************)
(* Program constants.                                                       *)
(***************************************************************************)
PctScale == 10000
Tolerance == 10
LayeredThreshold == 2

None == <<>>
Some(v) == <<v>>
Val(o) == o[1]
IsNone(o) == o = <<>>

\* A local variable: the value of a call, computed once and then used.
ValueOf(values) == CHOOSE v \in values : TRUE

PLAN == "plan"
OPEN == "open"
CLOSE == "close"
SL == "sl"
TP == "tp"
BOTH == "both"
PENDING == "pending"
HIT == "hit"
CANCELLED == "cancelled"

(***************************************************************************)
(* Sequence helpers (list comprehensions, sum, max, sorted).                *)
(***************************************************************************)
SeqFilter(s, Keep(_)) == SelectSeq(s, Keep)

SeqSum(s, F(_)) ==
    LET acc[i \in 0..Len(s)] == IF i = 0 THEN 0 ELSE acc[i - 1] + F(s[i])
    IN  acc[Len(s)]

\* max() over a non-empty sequence.
SeqMax(s, F(_)) ==
    LET acc[i \in 1..Len(s)] ==
            IF i = 1 THEN F(s[1])
            ELSE IF F(s[i]) >= acc[i - 1] THEN F(s[i]) ELSE acc[i - 1]
    IN  acc[Len(s)]

Range(s) == {s[i] : i \in DOMAIN s}

Abs(x) == IF x < 0 THEN 0 - x ELSE x

\* Python's int(): truncation of the non-negative quotient n / d.
IntTrunc(n, d) == n \div d

\* Python's round(): nearest integer, a tie going to the even neighbour.
RoundHalfEven(n, d) ==
    LET q == n \div d
        r == n % d
    IN  IF 2 * r < d THEN q
        ELSE IF 2 * r > d THEN q + 1
        ELSE IF q % 2 = 0 THEN q ELSE q + 1

(***************************************************************************)
(* The store as a value: S = [trades, levels, next_id, log].  trades is a   *)
(* sequence indexed by trade id; levels is the exit_levels table in id      *)
(* order; log lists the status changes <<trade id, from, to>> made by the   *)
(* operation in progress.                                                   *)
(***************************************************************************)
Store == [trades |-> trades, levels |-> levels, next_id |-> next_id, log |-> <<>>]

LevelsOf(S, trade_id) == SeqFilter(S.levels, LAMBDA l : l.trade_id = trade_id)

LevelIds(S) == {S.levels[i].id : i \in DOMAIN S.levels}

LevelById(S, level_id) ==
    CHOOSE l \in Range(S.levels) : l.id = level_id

\* Rewrite the rows selected by Sel with Upd, keeping table order.
UpdateLevels(ls, Sel(_), Upd(_)) ==
    [i \in DOMAIN ls |-> IF Sel(ls[i]) THEN Upd(ls[i]) ELSE ls[i]]

SetTrade(S, trade_id, t) == [S EXCEPT !.trades[trade_id] = t]

\* trade.status = new_status, noting the change.
SetStatus(S, trade_id, new_status) ==
    LET old == S.trades[trade_id].status
    IN  [S EXCEPT !.trades[trade_id].status = new_status,
                  !.log = IF old = new_status THEN @
                          ELSE Append(@, <<trade_id, old, new_status>>)]

(***************************************************************************)
(* Exit level ledger (exit_level_service.py).  An operation that can raise  *)
(* returns [error, S]; error = "ok" when it returned normally.              *)
(***************************************************************************)
OK == "ok"
ExitLevelValidationError == "ExitLevelValidationError"
TradeUpdateError == "TradeUpdateError"

OfType(levels_data, level_type) ==
    SeqFilter(levels_data, LAMBDA l : l.level_type = level_type)

PctSum(ls) == SeqSum(ls, LAMBDA l : l.units_pct)

\* A validation that looks at the TP percentages only.
PctSumRejectedTpOnly(levels_data, level_type) ==
    /\ level_type = TP
    /\ OfType(levels_data, TP) # <<>>
    /\ Abs(PctSum(OfType(levels_data, TP)) - PctScale) > Tolerance

\* abs(sum - 1.0) > 0.001 for a type that has levels.
PctSumRejected(levels_data, level_type) ==
    /\ OfType(levels_data, level_type) # <<>>
    /\ Abs(PctSum(OfType(levels_data, level_type)) - PctScale) > Tolerance

\* An index that counts the levels of both types.
OrderIndexOfPosition(levels_data, i) == i

\* order_index of the i-th input level: its 1-based rank within its type.
OrderIndexOf(levels_data, i) ==
    Cardinality({j \in 1..i : levels_data[j].level_type = levels_data[i].level_type})

NewLevels(S, trade_id, levels_data) ==
    [i \in 1..Len(levels_data) |->
        [id |-> S.next_id + i - 1,
         trade_id |-> trade_id,
         level_type |-> levels_data[i].level_type,
         price |-> levels_data[i].price,
         units_pct |-> levels_data[i].units_pct,
         order_index |-> OrderIndexOf(levels_data, i),
         status |-> PENDING,
         hit_date |-> None,
         units_closed |-> None,
         move_sl_to_breakeven |-> levels_data[i].move_sl_to_breakeven]]

\* A creation that accepts sums up to 100% and refuses only those above.
create_exit_levels_at_most(S, trade_id, levels_data) ==
    IF \/ PctSum(OfType(levels_data, TP)) > PctScale + Tolerance
       \/ PctSum(OfType(levels_data, SL)) > PctScale + Tolerance
    THEN [error |-> ExitLevelValidationError, S |-> S]
    ELSE [error |-> OK,
          S |-> [S EXCEPT !.levels = @ \o NewLevels(S, trade_id, levels_data),
                          !.next_id = @ + Len(levels_data)]]

create_exit_levels(S, trade_id, levels_data) ==
    IF PctSumRejected(levels_data, TP) \/ PctSumRejected(levels_data, SL)
    THEN [error |-> ExitLevelValidationError, S |-> S]
    ELSE [error |-> OK,
          S |-> [S EXCEPT !.levels = @ \o NewLevels(S, trade_id, levels_data),
                          !.next_id = @ + Len(levels_data)]]

\* A marking that refuses a Hit level but hits a Cancelled one again.
mark_level_hit_cancelled_too(S, level_id, hit_date, units_closed) ==
    IF level_id \notin LevelIds(S)
    THEN [error |-> ExitLevelValidationError, S |-> S]
    ELSE IF LevelById(S, level_id).status = HIT
    THEN [error |-> ExitLevelValidationError, S |-> S]
    ELSE [error |-> OK,
          S |-> [S EXCEPT !.levels =
                    UpdateLevels(@, LAMBDA l : l.id = level_id,
                                 LAMBDA l : [l EXCEPT !.status = HIT,
                                                      !.hit_date = Some(hit_date),
                                                      !.units_closed = Some(units_closed)])]]

mark_level_hit(S, level_id, hit_date, units_closed) ==
    IF level_id \notin LevelIds(S)
    THEN [error |-> ExitLevelValidationError, S |-> S]
    ELSE IF LevelById(S, level_id).status = HIT
    THEN [error |-> ExitLevelValidationError, S |-> S]
    ELSE IF LevelById(S, level_id).status = CANCELLED
    THEN [error |-> ExitLevelValidationError, S |-> S]
    ELSE [error |-> OK,
          S |-> [S EXCEPT !.levels =
                    UpdateLevels(@, LAMBDA l : l.id = level_id,
                                 LAMBDA l : [l EXCEPT !.status = HIT,
                                                      !.hit_date = Some(hit_date),
                                                      !.units_closed = Some(units_closed)])]]

\* A cancellation that does not filter by trade.
cancel_remaining_levels_everywhere(S, trade_id) ==
    [S EXCEPT !.levels = UpdateLevels(@, LAMBDA l : l.status = PENDING,
                                      LAMBDA l : [l EXCEPT !.status = CANCELLED])]

cancel_remaining_levels(S, trade_id) ==
    [S EXCEPT !.levels =
        UpdateLevels(@, LAMBDA l : l.trade_id = trade_id /\ l.status = PENDING,
                     LAMBDA l : [l EXCEPT !.status = CANCELLED])]

\* A DELETE of every row of the trade that is not HIT.
DeleteNotHit(S, trade_id) ==
    [S EXCEPT !.levels =
        SeqFilter(@, LAMBDA l : ~(l.trade_id = trade_id /\ l.status # HIT))]

\* The DELETE of the PENDING rows.
DeletePending(S, trade_id) ==
    [S EXCEPT !.levels =
        SeqFilter(@, LAMBDA l : ~(l.trade_id = trade_id /\ l.status = PENDING))]

\* A replacement whose DELETE stays when the creation raises.
replace_exit_levels_delete_kept(S, trade_id, levels_data) ==
    IF IsNone(levels_data) \/ Val(levels_data) = <<>>
    THEN [error |-> OK, S |-> DeletePending(S, trade_id), is_layered |-> FALSE]
    ELSE LET created == create_exit_levels(DeletePending(S, trade_id), trade_id,
                                           Val(levels_data))
         IN  IF created.error # OK
             THEN [error |-> created.error, S |-> DeletePending(S, trade_id),
                   is_layered |-> FALSE]
             ELSE [error |-> OK, S |-> created.S, is_layered |-> TRUE]

\* levels_data is None, or Some(sequence of level dicts).  When
\* create_exit_levels raises, the DELETE has not been committed and is
\* rolled back when the request's session is closed (db/database.py), so
\* the store is the one before the call.
replace_exit_levels(S, trade_id, levels_data) ==
    IF IsNone(levels_data) \/ Val(levels_data) = <<>>
    THEN [error |-> OK, S |-> DeletePending(S, trade_id), is_layered |-> FALSE]
    ELSE LET created == create_exit_levels(DeletePending(S, trade_id), trade_id,
                                           Val(levels_data))
         IN  IF created.error # OK
             THEN [error |-> created.error, S |-> S, is_layered |-> FALSE]
             ELSE [error |-> OK, S |-> created.S, is_layered |-> TRUE]

(***************************************************************************)
(* Derived trade properties (models/db.py).                                 *)
(***************************************************************************)
Frac(n, d) == <<n, d>>

\* First SL level of the trade in table order, whatever its status.
stop_loss(S, trade_id) ==
    LET sl_levels == SeqFilter(LevelsOf(S, trade_id), LAMBDA l : l.level_type = SL)
    IN  IF sl_levels = <<>> THEN 0 ELSE sl_levels[1].price

\* Weighted average of the TP levels' prices, as a fraction.
take_profit(S, trade_id) ==
    LET tp_levels == SeqFilter(LevelsOf(S, trade_id), LAMBDA l : l.level_type = TP)
        total_pct == PctSum(tp_levels)
    IN  IF tp_levels = <<>> \/ total_pct = 0 THEN Frac(0, 1)
        ELSE Frac(SeqSum(tp_levels, LAMBDA l : l.price * l.units_pct), total_pct)

is_long_trade(S, trade_id) ==
    stop_loss(S, trade_id) < S.trades[trade_id].entry_price

(***************************************************************************)
(* Threshold detection (sltp_detection_service.py).  A bar is               *)
(* [date, high, low]; high and low are nullable.                            *)
(***************************************************************************)
\* x >= f and x <= f for an integer x and a fraction f with f[2] > 0.
GeFrac(x, f) == x * f[2] >= f[1]
LeFrac(x, f) == x * f[2] <= f[1]

\* MarketData.date >= from_date, ordered by date (bars is kept in date order).
BarsFrom(from_date) == SeqFilter(bars, LAMBDA b : b.date >= from_date)

\* A day check that reports SL when both thresholds are crossed.
check_sltp_hit_for_day_sl_wins(S, trade_id, market_day) ==
    IF IsNone(market_day.low) \/ IsNone(market_day.high) THEN None
    ELSE LET long == is_long_trade(S, trade_id)
             sl_hit == IF long THEN Val(market_day.low) <= stop_loss(S, trade_id)
                       ELSE Val(market_day.high) >= stop_loss(S, trade_id)
             tp_hit == IF long THEN GeFrac(Val(market_day.high), take_profit(S, trade_id))
                       ELSE LeFrac(Val(market_day.low), take_profit(S, trade_id))
         IN  IF sl_hit THEN Some(SL)
             ELSE IF tp_hit THEN Some(TP)
             ELSE None

\* SL, TP, BOTH or None.
check_sltp_hit_for_day(S, trade_id, market_day) ==
    IF IsNone(market_day.low) \/ IsNone(market_day.high) THEN None
    ELSE LET long == is_long_trade(S, trade_id)
             sl_hit == IF long THEN Val(market_day.low) <= stop_loss(S, trade_id)
                       ELSE Val(market_day.high) >= stop_loss(S, trade_id)
             tp_hit == IF long THEN GeFrac(Val(market_day.high), take_profit(S, trade_id))
                       ELSE LeFrac(Val(market_day.low), take_profit(S, trade_id))
         IN  IF sl_hit /\ tp_hit THEN Some(BOTH)
             ELSE IF sl_hit THEN Some(SL)
             ELSE IF tp_hit THEN Some(TP)
             ELSE None

\* Index of the first element of s satisfying Test, 0 if there is none.
FirstIndex(s, Test(_)) ==
    IF \E i \in DOMAIN s : Test(s[i])
    THEN CHOOSE i \in DOMAIN s : Test(s[i]) /\ \A j \in 1..(i - 1) : ~Test(s[j])
    ELSE 0

\* None, or Some([hit_type, hit_date, hit_price]); on BOTH the price
\* reported is the stop loss.
detect_sltp_hit(S, trade_id) ==
    LET trade == S.trades[trade_id]
    IN  IF trade.status # OPEN \/ IsNone(trade.date_actual) THEN None
        ELSE LET market_data == BarsFrom(Val(trade.date_actual))
                 i == FirstIndex(market_data,
                         LAMBDA day : ~IsNone(check_sltp_hit_for_day(S, trade_id, day)))
             IN  IF i = 0 THEN None
                 ELSE LET hit_type == Val(check_sltp_hit_for_day(S, trade_id, market_data[i]))
                      IN  Some([hit_type |-> hit_type,
                                hit_date |-> market_data[i].date,
                                hit_price |-> IF hit_type = TP
                                              THEN take_profit(S, trade_id)
                                              ELSE Frac(stop_loss(S, trade_id), 1)])

auto_close_paper_trade(S, trade_id, hit) ==
    IF hit.hit_type = BOTH THEN S
    ELSE SetStatus([S EXCEPT !.trades[trade_id].exit_type =
                                 Some(IF hit.hit_type = SL THEN SL ELSE TP),
                             !.trades[trade_id].exit_price = Some(hit.hit_price),
                             !.trades[trade_id].exit_date = Some(hit.hit_date)],
                   trade_id, CLOSE)

check_entry_hit_for_day(S, trade_id, market_day) ==
    IF IsNone(market_day.low) \/ IsNone(market_day.high) THEN FALSE
    ELSE IF is_long_trade(S, trade_id)
         THEN Val(market_day.low) <= S.trades[trade_id].entry_price
         ELSE Val(market_day.high) >= S.trades[trade_id].entry_price

\* An entry scan that starts at the first bar whatever date_planned is.
detect_entry_hit_from_first_bar(S, trade_id) ==
    LET trade == S.trades[trade_id]
    IN  IF trade.status # PLAN \/ IsNone(trade.date_planned) THEN None
        ELSE LET i == FirstIndex(bars,
                         LAMBDA day : check_entry_hit_for_day(S, trade_id, day))
             IN  IF i = 0 THEN None
                 ELSE Some([hit_date |-> bars[i].date,
                            entry_price |-> trade.entry_price])

\* None, or Some([hit_date, entry_price]).
detect_entry_hit(S, trade_id) ==
    LET trade == S.trades[trade_id]
    IN  IF trade.status # PLAN \/ IsNone(trade.date_planned) THEN None
        ELSE LET market_data == BarsFrom(Val(trade.date_planned))
                 i == FirstIndex(market_data,
                         LAMBDA day : check_entry_hit_for_day(S, trade_id, day))
             IN  IF i = 0 THEN None
                 ELSE Some([hit_date |-> market_data[i].date,
                            entry_price |-> trade.entry_price])

auto_open_paper_trade(S, trade_id, hit) ==
    SetStatus([S EXCEPT !.trades[trade_id].date_actual = Some(hit.hit_date)],
              trade_id, OPEN)

check_layered_level_hit(S, trade_id, level, market_day) ==
    IF IsNone(market_day.low) \/ IsNone(market_day.high) THEN FALSE
    ELSE LET long == is_long_trade(S, trade_id)
         IN  IF level.level_type = SL
             THEN IF long THEN Val(market_day.low) <= level.price
                  ELSE Val(market_day.high) >= level.price
             ELSE IF long THEN Val(market_day.high) >= level.price
                  ELSE Val(market_day.low) <= level.price

\* An order that puts TP levels before SL levels.
KeyLeTpFirst(a, b) ==
    \/ a.level_type = TP /\ b.level_type = SL
    \/ a.level_type = b.level_type /\ a.order_index <= b.order_index

\* sorted(..., key=(level_type.value, order_index)): "sl" < "tp"; the sort
\* is stable, so equal keys keep table order.
KeyLe(a, b) ==
    \/ a.level_type = SL /\ b.level_type = TP
    \/ a.level_type = b.level_type /\ a.order_index <= b.order_index

RECURSIVE InsertByKey(_, _)
InsertByKey(sorted, l) ==
    IF sorted = <<>> THEN <<l>>
    ELSE IF KeyLe(Head(sorted), l) THEN <<Head(sorted)>> \o InsertByKey(Tail(sorted), l)
    ELSE <<l>> \o sorted

SortedByKey(ls) ==
    LET acc[i \in 0..Len(ls)] == IF i = 0 THEN <<>> ELSE InsertByKey(acc[i - 1], ls[i])
    IN  acc[Len(ls)]

\* A share of the units that is floored at 1 and not capped.
UnitsToCloseUncapped(units, units_pct, remaining_units) ==
    LET raw == IntTrunc(units * units_pct, PctScale)
    IN  IF raw < 1 THEN 1 ELSE raw

\* A share of the units that is capped and not floored at 1.
UnitsToCloseUnfloored(units, units_pct, remaining_units) ==
    LET raw == IntTrunc(units * units_pct, PctScale)
    IN  IF raw > remaining_units THEN remaining_units ELSE raw

\* A share taken from the units that remain instead of the original units.
UnitsToCloseOfRemaining(units, units_pct, remaining_units) ==
    LET raw == IntTrunc(remaining_units * units_pct, PctScale)
        floored == IF raw < 1 THEN 1 ELSE raw
    IN  IF floored > remaining_units THEN remaining_units ELSE floored

\* units_to_close of one level given the running remaining counter.
UnitsToClose(units, units_pct, remaining_units) ==
    LET raw == IntTrunc(units * units_pct, PctScale)
        floored == IF raw < 1 THEN 1 ELSE raw
    IN  IF floored > remaining_units THEN remaining_units ELSE floored

\* The inner loop of detect_layered_hits over the sorted pending levels for
\* one day.  acc = [hits, remaining_units, marked]; marked holds the ids
\* whose status the scan has set to HIT.
RECURSIVE ScanLevels(_, _, _, _, _)
ScanLevels(S, trade_id, sorted_levels, day, acc) ==
    IF sorted_levels = <<>> THEN acc
    ELSE LET level == Head(sorted_levels)
         IN  IF level.id \in acc.marked
                \/ ~check_layered_level_hit(S, trade_id, level, day)
             THEN ScanLevels(S, trade_id, Tail(sorted_levels), day, acc)
             ELSE LET units_to_close ==
                          UnitsToClose(S.trades[trade_id].units, level.units_pct,
                                       acc.remaining_units)
                  IN  ScanLevels(S, trade_id, Tail(sorted_levels), day,
                          [hits |-> Append(acc.hits,
                                       [level_id |-> level.id,
                                        hit_date |-> day.date,
                                        units_to_close |-> units_to_close]),
                           remaining_units |-> acc.remaining_units - units_to_close,
                           marked |-> acc.marked \cup {level.id}])

\* The outer loop over the days, left as soon as no unit remains.
RECURSIVE ScanDays(_, _, _, _, _)
ScanDays(S, trade_id, sorted_levels, market_data, acc) ==
    IF market_data = <<>> THEN acc
    ELSE LET after == ScanLevels(S, trade_id, sorted_levels, Head(market_data), acc)
         IN  IF after.remaining_units <= 0 THEN after
             ELSE ScanDays(S, trade_id, sorted_levels, Tail(market_data), after)

\* The scan of detect_layered_hits: [hits, remaining_units, marked], empty
\* when the trade is not open or has no pending level.
ScanOfTrade(S, trade_id) ==
    LET trade == S.trades[trade_id]
        pending_levels == SeqFilter(LevelsOf(S, trade_id), LAMBDA l : l.status = PENDING)
        nothing == [hits |-> <<>>, remaining_units |-> 0, marked |-> {}]
    IN  IF trade.status # OPEN \/ IsNone(trade.date_actual) THEN nothing
        ELSE IF pending_levels = <<>> THEN nothing
        ELSE ScanDays(S, trade_id, SortedByKey(pending_levels),
                      BarsFrom(Val(trade.date_actual)),
                      [hits |-> <<>>,
                       remaining_units |-> IF trade.remaining_units = 0 THEN trade.units
                                           ELSE trade.remaining_units,
                       marked |-> {}])

\* The list of hits [level_id, hit_date, units_to_close].
detect_layered_hits(S, trade_id) == ScanOfTrade(S, trade_id).hits

\* level.status = ExitLevelStatus.HIT on the levels the scan has recorded.
MarkScanned(S, marked) ==
    [S EXCEPT !.levels =
        UpdateLevels(@, LAMBDA l : l.id \in marked,
                     LAMBDA l : [l EXCEPT !.status = HIT])]

\* A scan that leaves the statuses it has set.
ResetScannedSkipped(S, hits) == S

\* hit.level.status = ExitLevelStatus.PENDING for every hit of the list.
ResetScanned(S, hits) ==
    [S EXCEPT !.levels =
        UpdateLevels(@, LAMBDA l : \E k \in DOMAIN hits : hits[k].level_id = l.id,
                     LAMBDA l : [l EXCEPT !.status = PENDING])]

\* The objects of the session when detect_layered_hits returns: the scan
\* writes the status of the levels it records and sets it back at the end.
SessionAfterScan(S, trade_id) ==
    ValueOf({ResetScanned(MarkScanned(S, scan.marked), scan.hits) :
                scan \in {ScanOfTrade(S, trade_id)}})

(***************************************************************************)
(* Partial closes and final settlement.                                     *)
(***************************************************************************)
\* A move to breakeven of every SL level of the trade, whatever its status.
MoveSlToBreakevenAnyStatus(S, trade_id) ==
    [S EXCEPT !.levels =
        UpdateLevels(@, LAMBDA l : /\ l.trade_id = trade_id
                                   /\ l.level_type = SL,
                     LAMBDA l : [l EXCEPT !.price = S.trades[trade_id].entry_price])]

\* Every still-PENDING SL level of the trade gets price = entry_price.
MoveSlToBreakeven(S, trade_id) ==
    [S EXCEPT !.levels =
        UpdateLevels(@, LAMBDA l : /\ l.trade_id = trade_id
                                   /\ l.level_type = SL
                                   /\ l.status = PENDING,
                     LAMBDA l : [l EXCEPT !.price = S.trades[trade_id].entry_price])]

UnitsClosedOr0(l) == IF IsNone(l.units_closed) THEN 0 ELSE Val(l.units_closed)

\* A settlement whose exit type is TP only with strictly more TP units.
FinalSettlementTieToSl(S, trade_id) ==
    LET closed == SetStatus(S, trade_id, CLOSE)
        hit_levels == SeqFilter(LevelsOf(S, trade_id), LAMBDA l : l.status = HIT)
        total_closed == SeqSum(hit_levels, UnitsClosedOr0)
        tp_units == SeqSum(SeqFilter(hit_levels, LAMBDA l : l.level_type = TP), UnitsClosedOr0)
        sl_units == SeqSum(SeqFilter(hit_levels, LAMBDA l : l.level_type = SL), UnitsClosedOr0)
    IN  IF hit_levels = <<>> THEN closed
        ELSE [closed EXCEPT
                !.trades[trade_id].exit_price =
                    IF total_closed > 0
                    THEN Some(Frac(SeqSum(hit_levels,
                                     LAMBDA l : l.price * UnitsClosedOr0(l)),
                                   total_closed))
                    ELSE @,
                !.trades[trade_id].exit_date =
                    Some(SeqMax(hit_levels, LAMBDA l : Val(l.hit_date))),
                !.trades[trade_id].exit_type =
                    Some(IF tp_units > sl_units THEN TP ELSE SL)]

\* The body run when remaining_units <= 0: status CLOSE, weighted exit
\* price, exit date and exit type from the HIT levels.
FinalSettlement(S, trade_id) ==
    LET closed == SetStatus(S, trade_id, CLOSE)
        hit_levels == SeqFilter(LevelsOf(S, trade_id), LAMBDA l : l.status = HIT)
        total_closed == SeqSum(hit_levels, UnitsClosedOr0)
        tp_units == SeqSum(SeqFilter(hit_levels, LAMBDA l : l.level_type = TP), UnitsClosedOr0)
        sl_units == SeqSum(SeqFilter(hit_levels, LAMBDA l : l.level_type = SL), UnitsClosedOr0)
    IN  IF hit_levels = <<>> THEN closed
        ELSE [closed EXCEPT
                !.trades[trade_id].exit_price =
                    IF total_closed > 0
                    THEN Some(Frac(SeqSum(hit_levels,
                                     LAMBDA l : l.price * UnitsClosedOr0(l)),
                                   total_closed))
                    ELSE @,
                !.trades[trade_id].exit_date =
                    Some(SeqMax(hit_levels, LAMBDA l : Val(l.hit_date))),
                !.trades[trade_id].exit_type =
                    Some(IF tp_units >= sl_units THEN TP ELSE SL)]

\* hit_price is None or Some(price).
apply_manual_level_hit(S, trade_id, level_id, hit_date, hit_price) ==
    LET trade == S.trades[trade_id]
        level == LevelById(S, level_id)
        units_closed == RoundHalfEven(trade.units * level.units_pct, PctScale)
        Settled(moved) ==
            IF moved.trades[trade_id].remaining_units <= 0
            THEN cancel_remaining_levels(FinalSettlement(moved, trade_id), trade_id)
            ELSE moved
        Moved(decremented) ==
            Settled(IF level.move_sl_to_breakeven /\ level.level_type = TP
                    THEN MoveSlToBreakeven(decremented, trade_id)
                    ELSE decremented)
        Priced(priced) ==
            Moved([priced EXCEPT !.trades[trade_id].remaining_units = @ - units_closed])
        Marked(marked) ==
            IF marked.error # OK THEN [error |-> marked.error, S |-> S]
            ELSE [error |-> OK,
                  S |-> Priced(IF IsNone(hit_price) THEN marked.S
                               ELSE [marked.S EXCEPT !.levels =
                                        UpdateLevels(@, LAMBDA l : l.id = level_id,
                                            LAMBDA l : [l EXCEPT !.price = Val(hit_price)])])]
    IN  Marked(mark_level_hit(S, level_id, hit_date, units_closed))

\* A revert that does not look at the trade's status.
revert_level_hit_any_trade(S, trade_id, level_id) ==
    IF LevelById(S, level_id).status # HIT
    THEN [error |-> ExitLevelValidationError, S |-> S]
    ELSE [error |-> OK,
          S |-> [S EXCEPT
                   !.trades[trade_id].remaining_units =
                       @ + UnitsClosedOr0(LevelById(S, level_id)),
                   !.levels = UpdateLevels(@, LAMBDA l : l.id = level_id,
                                  LAMBDA l : [l EXCEPT !.status = PENDING,
                                                       !.hit_date = None,
                                                       !.units_closed = None])]]

\* A revert that resets the level and leaves remaining_units as it is.
revert_level_hit_level_only(S, trade_id, level_id) ==
    IF LevelById(S, level_id).status # HIT
    THEN [error |-> ExitLevelValidationError, S |-> S]
    ELSE IF S.trades[trade_id].status # OPEN
    THEN [error |-> ExitLevelValidationError, S |-> S]
    ELSE [error |-> OK,
          S |-> [S EXCEPT
                   !.levels = UpdateLevels(@, LAMBDA l : l.id = level_id,
                                  LAMBDA l : [l EXCEPT !.status = PENDING,
                                                       !.hit_date = None,
                                                       !.units_closed = None])]]

\* A revert that resets the status and keeps the hit date and the units.
revert_level_hit_status_only(S, trade_id, level_id) ==
    LET trade == S.trades[trade_id]
        level == LevelById(S, level_id)
    IN  IF level.status # HIT THEN [error |-> ExitLevelValidationError, S |-> S]
        ELSE IF trade.status # OPEN THEN [error |-> ExitLevelValidationError, S |-> S]
        ELSE [error |-> OK,
              S |-> [S EXCEPT
                       !.trades[trade_id].remaining_units = @ + UnitsClosedOr0(level),
                       !.levels = UpdateLevels(@, LAMBDA l : l.id = level_id,
                                      LAMBDA l : [l EXCEPT !.status = PENDING])]]

revert_level_hit(S, trade_id, level_id) ==
    LET trade == S.trades[trade_id]
        level == LevelById(S, level_id)
    IN  IF level.status # HIT THEN [error |-> ExitLevelValidationError, S |-> S]
        ELSE IF trade.status # OPEN THEN [error |-> ExitLevelValidationError, S |-> S]
        ELSE [error |-> OK,
              S |-> [S EXCEPT
                       !.trades[trade_id].remaining_units = @ + UnitsClosedOr0(level),
                       !.levels = UpdateLevels(@, LAMBDA l : l.id = level_id,
                                      LAMBDA l : [l EXCEPT !.status = PENDING,
                                                           !.hit_date = None,
                                                           !.units_closed = None])]]

(***************************************************************************)
(* Trade service (trade_service.py).                                        *)
(***************************************************************************)
\* date.today(): the requests are made on the last day the bar history
\* can cover.
Today == MaxBars

\* Python truthiness of a nullable price: None and 0.0 are false.
Falsy(o) == IsNone(o) \/ Val(o)[1] = 0

\* a or b.
Either(a, b) == IF IsNone(a) THEN b ELSE a

\* create_trade: the trade row is committed before its exit levels are
\* created, so a rejected level set leaves the trade without levels.
\* exit_levels is None, or Some(sequence); stop_loss/take_profit nullable.
create_trade(S, entry_price, units, date_planned, sl, tp, paper_trade, exit_levels) ==
    LET given == ~IsNone(exit_levels) /\ Val(exit_levels) # <<>>
        levels_data ==
            IF given THEN Val(exit_levels)
            ELSE << [level_type |-> SL, price |-> Val(sl), units_pct |-> PctScale,
                     move_sl_to_breakeven |-> FALSE],
                    [level_type |-> TP, price |-> Val(tp), units_pct |-> PctScale,
                     move_sl_to_breakeven |-> FALSE] >>
        trade_id == Len(S.trades) + 1
        trade == [id |-> trade_id,
                  status |-> PLAN,
                  units |-> units,
                  entry_price |-> entry_price,
                  date_planned |-> Some(date_planned),
                  date_actual |-> None,
                  exit_date |-> None,
                  exit_type |-> None,
                  exit_price |-> None,
                  paper_trade |-> paper_trade,
                  is_layered |-> Len(levels_data) > LayeredThreshold,
                  remaining_units |-> units]
        added == [S EXCEPT !.trades = Append(@, trade)]
        created == create_exit_levels(added, trade_id, levels_data)
    IN  IF ~given /\ (IsNone(sl) \/ IsNone(tp))
        THEN [error |-> "ValueError", S |-> S]
        ELSE [error |-> created.error, S |-> created.S]

NoUpdates ==
    [status |-> None, date_actual |-> None, exit_date |-> None,
     exit_price |-> None, exit_type |-> None, exit_levels |-> None]

\* An update that closes a trade without asking for the exit type.
update_trade_price_only(S, trade_id, updates) ==
    LET trade == S.trades[trade_id]
        current_status == trade.status
        new_status == updates.status
        plan_open == ~IsNone(new_status) /\ current_status = PLAN /\ Val(new_status) = OPEN
        open_close == ~IsNone(new_status) /\ current_status = OPEN /\ Val(new_status) = CLOSE
        plan_close == ~IsNone(new_status) /\ current_status = PLAN /\ Val(new_status) = CLOSE
        from_close == ~IsNone(new_status) /\ current_status = CLOSE
        exit_price == IF Falsy(updates.exit_price) THEN trade.exit_price
                      ELSE updates.exit_price
        exit_type == Either(updates.exit_type, trade.exit_type)
        exit_date == Either(updates.exit_date, trade.exit_date)
        u1 == IF plan_open /\ IsNone(updates.date_actual)
              THEN [updates EXCEPT !.date_actual = Some(Today)]
              ELSE IF open_close /\ IsNone(exit_date)
              THEN [updates EXCEPT !.exit_date = Some(Today)]
              ELSE updates
        replaced == replace_exit_levels(S, trade_id, updates.exit_levels)
        S1 == IF IsNone(updates.exit_levels) THEN S
              ELSE [replaced.S EXCEPT
                      !.trades[trade_id].is_layered = replaced.is_layered,
                      !.trades[trade_id].remaining_units =
                          IF replaced.is_layered THEN trade.units ELSE @]
        S2 == [S1 EXCEPT
                 !.trades[trade_id].date_actual = Either(u1.date_actual, @),
                 !.trades[trade_id].exit_date = Either(u1.exit_date, @),
                 !.trades[trade_id].exit_price = Either(u1.exit_price, @),
                 !.trades[trade_id].exit_type = Either(u1.exit_type, @)]
        S3 == IF IsNone(new_status) THEN S2 ELSE SetStatus(S2, trade_id, Val(new_status))
    IN  IF open_close /\ Falsy(exit_price)
        THEN [error |-> TradeUpdateError, S |-> S]
        ELSE IF plan_close \/ from_close
        THEN [error |-> TradeUpdateError, S |-> S]
        ELSE IF ~IsNone(updates.exit_levels) /\ replaced.error # OK
        THEN [error |-> replaced.error, S |-> S]
        ELSE [error |-> OK, S |-> S3]

\* An update that replaces the levels before it validates the transition.
update_trade_levels_first(S, trade_id, updates) ==
    LET trade == S.trades[trade_id]
        current_status == trade.status
        new_status == updates.status
        plan_open == ~IsNone(new_status) /\ current_status = PLAN /\ Val(new_status) = OPEN
        open_close == ~IsNone(new_status) /\ current_status = OPEN /\ Val(new_status) = CLOSE
        plan_close == ~IsNone(new_status) /\ current_status = PLAN /\ Val(new_status) = CLOSE
        from_close == ~IsNone(new_status) /\ current_status = CLOSE
        exit_price == IF Falsy(updates.exit_price) THEN trade.exit_price
                      ELSE updates.exit_price
        exit_type == Either(updates.exit_type, trade.exit_type)
        exit_date == Either(updates.exit_date, trade.exit_date)
        u1 == IF plan_open /\ IsNone(updates.date_actual)
              THEN [updates EXCEPT !.date_actual = Some(Today)]
              ELSE IF open_close /\ IsNone(exit_date)
              THEN [updates EXCEPT !.exit_date = Some(Today)]
              ELSE updates
        replaced == replace_exit_levels(S, trade_id, updates.exit_levels)
        S1 == IF IsNone(updates.exit_levels) THEN S
              ELSE [replaced.S EXCEPT
                      !.trades[trade_id].is_layered = replaced.is_layered,
                      !.trades[trade_id].remaining_units =
                          IF replaced.is_layered THEN trade.units ELSE @]
        S2 == [S1 EXCEPT
                 !.trades[trade_id].date_actual = Either(u1.date_actual, @),
                 !.trades[trade_id].exit_date = Either(u1.exit_date, @),
                 !.trades[trade_id].exit_price = Either(u1.exit_price, @),
                 !.trades[trade_id].exit_type = Either(u1.exit_type, @)]
        S3 == IF IsNone(new_status) THEN S2 ELSE SetStatus(S2, trade_id, Val(new_status))
    IN  IF open_close /\ (Falsy(exit_price) \/ IsNone(exit_type))
        THEN [error |-> TradeUpdateError, S |-> S]
        ELSE IF plan_close \/ from_close
        THEN [error |-> TradeUpdateError, S |-> S1]
        ELSE IF ~IsNone(updates.exit_levels) /\ replaced.error # OK
        THEN [error |-> replaced.error, S |-> S]
        ELSE [error |-> OK, S |-> S3]

\* updates: a record like NoUpdates; a field is None when the key is
\* absent, exit_levels = Some(sequence) when the key is present.
update_trade(S, trade_id, updates) ==
    LET trade == S.trades[trade_id]
        current_status == trade.status
        new_status == updates.status
        plan_open == ~IsNone(new_status) /\ current_status = PLAN /\ Val(new_status) = OPEN
        open_close == ~IsNone(new_status) /\ current_status = OPEN /\ Val(new_status) = CLOSE
        plan_close == ~IsNone(new_status) /\ current_status = PLAN /\ Val(new_status) = CLOSE
        from_close == ~IsNone(new_status) /\ current_status = CLOSE
        exit_price == IF Falsy(updates.exit_price) THEN trade.exit_price
                      ELSE updates.exit_price
        exit_type == Either(updates.exit_type, trade.exit_type)
        exit_date == Either(updates.exit_date, trade.exit_date)
        u1 == IF plan_open /\ IsNone(updates.date_actual)
              THEN [updates EXCEPT !.date_actual = Some(Today)]
              ELSE IF open_close /\ IsNone(exit_date)
              THEN [updates EXCEPT !.exit_date = Some(Today)]
              ELSE updates
        replaced == replace_exit_levels(S, trade_id, updates.exit_levels)
        S1 == IF IsNone(updates.exit_levels) THEN S
              ELSE [replaced.S EXCEPT
                      !.trades[trade_id].is_layered = replaced.is_layered,
                      !.trades[trade_id].remaining_units =
                          IF replaced.is_layered THEN trade.units ELSE @]
        S2 == [S1 EXCEPT
                 !.trades[trade_id].date_actual = Either(u1.date_actual, @),
                 !.trades[trade_id].exit_date = Either(u1.exit_date, @),
                 !.trades[trade_id].exit_price = Either(u1.exit_price, @),
                 !.trades[trade_id].exit_type = Either(u1.exit_type, @)]
        S3 == IF IsNone(new_status) THEN S2 ELSE SetStatus(S2, trade_id, Val(new_status))
    IN  IF open_close /\ (Falsy(exit_price) \/ IsNone(exit_type))
        THEN [error |-> TradeUpdateError, S |-> S]
        ELSE IF plan_close \/ from_close
        THEN [error |-> TradeUpdateError, S |-> S]
        ELSE IF ~IsNone(updates.exit_levels) /\ replaced.error # OK
        THEN [error |-> replaced.error, S |-> S]
        ELSE [error |-> OK, S |-> S3]

\* A guard that accepts the request whatever the trade's status.
HitRequestAcceptedAnyStatus(S, trade_id, level_id) ==
    /\ level_id \in LevelIds(S)
    /\ LevelById(S, level_id).trade_id = trade_id
    /\ LevelById(S, level_id).status = PENDING

\* PATCH /api/trades/{trade_id}/exit-levels/{level_id}/hit: the trade must
\* be open and the level one of its pending levels.
HitRequestAccepted(S, trade_id, level_id) ==
    /\ level_id \in LevelIds(S)
    /\ LevelById(S, level_id).trade_id = trade_id
    /\ S.trades[trade_id].status = OPEN
    /\ LevelById(S, level_id).status = PENDING

\* The requests of other sessions that commit while the batch runs.  When
\* the store has the field in_flight, it is a sequence of mark-as-hit
\* requests [trade_id, level_id] sent by the user during the batch; the first
\* of them is handled and committed right after the next commit of the
\* batch's session.  The objects of the batch's session expire at its own
\* commit (sessionmaker's default expire_on_commit), so the batch reads the
\* rows the other session has written.
OtherSessionsCommit(S) ==
    IF "in_flight" \notin DOMAIN S THEN S
    ELSE IF S.in_flight = <<>> THEN S
    ELSE LET Landed(r, out) == [out.S EXCEPT !.in_flight = Tail(@), !.log = S.log]
             Handled(r) ==
                 Landed(r, IF HitRequestAccepted(S, r.trade_id, r.level_id)
                           THEN apply_manual_level_hit(S, r.trade_id, r.level_id,
                                                       Today, None)
                           ELSE [error |-> "HTTPException", S |-> S])
         IN  Handled(Head(S.in_flight))

\* One iteration of the loop of process_layered_hits over the hits:
\* [error, S, committed].  mark_level_hit commits the session, what the
\* iterations before it changed included; the decrement and the breakeven
\* move that follow stay uncommitted until the next commit.
ApplyHit(S, trade_id, hit) ==
    LET level == LevelById(S, hit.level_id)
        Moved(decremented) ==
            IF level.move_sl_to_breakeven /\ level.level_type = TP
            THEN MoveSlToBreakeven(decremented, trade_id)
            ELSE decremented
        Committed(committed) ==
            [error |-> OK,
             committed |-> committed,
             S |-> Moved([committed EXCEPT !.trades[trade_id].remaining_units =
                                               @ - hit.units_to_close])]
        Marked(marked) ==
            IF marked.error # OK
            THEN [error |-> marked.error, S |-> S, committed |-> S]
            ELSE ValueOf({Committed(committed) :
                             committed \in {OtherSessionsCommit(marked.S)}})
    IN  Marked(mark_level_hit(S, hit.level_id, hit.hit_date, hit.units_to_close))

\* committed is the store as of the session's last commit: an exception
\* leaves the request, get_db closes the session (db/database.py) and what
\* was not committed is rolled back.
RECURSIVE ApplyHits(_, _, _, _)
ApplyHits(S, committed, trade_id, hits) ==
    IF hits = <<>> THEN [error |-> OK, S |-> S]
    ELSE LET Rest(one) ==
                 IF one.error # OK THEN [error |-> one.error, S |-> committed]
                 ELSE ApplyHits(one.S, one.committed, trade_id, Tail(hits))
         IN  ValueOf({Rest(one) : one \in {ApplyHit(S, trade_id, Head(hits))}})

\* [error, S, hits].
process_layered_hits(S, trade_id) ==
    LET Settled(hits, applied) ==
            IF applied.error # OK
            THEN [error |-> applied.error, S |-> applied.S, hits |-> <<>>]
            ELSE [error |-> OK,
                  S |-> IF applied.S.trades[trade_id].remaining_units <= 0
                        THEN FinalSettlement(applied.S, trade_id)
                        ELSE applied.S,
                  hits |-> hits]
        Processed(hits) ==
            IF hits = <<>> THEN [error |-> OK, S |-> S, hits |-> <<>>]
            ELSE ValueOf({Settled(hits, applied) :
                             applied \in {ApplyHits(S, S, trade_id, hits)}})
    IN  ValueOf({Processed(hits) : hits \in {detect_layered_hits(S, trade_id)}})

(***************************************************************************)
(* Batch orchestration (process_plan_trades, process_open_trades,           *)
(* process_all_trades).  One user, one ticker.                              *)
(***************************************************************************)
\* db.query(Trade).filter(status == ...).all(), in id order.
TradeIdsWithStatus(S, status) ==
    SeqFilter([i \in 1..Len(S.trades) |-> i], LAMBDA i : S.trades[i].status = status)

\* The loop body of process_plan_trades for one trade.
PlanStep(acc, trade_id) ==
    LET trade == acc.S.trades[trade_id]
        Entry(hit) ==
            IF IsNone(hit) THEN acc
            ELSE [S |-> IF trade.paper_trade
                        THEN auto_open_paper_trade(acc.S, trade_id, Val(hit))
                        ELSE acc.S,
                  entry_alerts |->
                      Append(acc.entry_alerts,
                             [trade_id |-> trade_id,
                              hit_type |-> "entry",
                              hit_date |-> Val(hit).hit_date,
                              entry_price |-> Val(hit).entry_price,
                              paper_trade |-> trade.paper_trade,
                              auto_opened |-> trade.paper_trade]),
                  auto_opened_count |-> acc.auto_opened_count
                                        + (IF trade.paper_trade THEN 1 ELSE 0)]
    IN  Entry(detect_entry_hit(acc.S, trade_id))

RECURSIVE PlanLoop(_, _)
PlanLoop(acc, plan_trades) ==
    IF plan_trades = <<>> THEN acc
    ELSE PlanLoop(PlanStep(acc, Head(plan_trades)), Tail(plan_trades))

process_plan_trades(S) ==
    PlanLoop([S |-> S, entry_alerts |-> <<>>, auto_opened_count |-> 0],
             TradeIdsWithStatus(S, PLAN))

\* The alerts of one layered trade, built after its hits were processed.
LayeredAlerts(S, trade_id, hits) ==
    [i \in 1..Len(hits) |->
        [trade_id |-> trade_id,
         level_type |-> LevelById(S, hits[i].level_id).level_type,
         level_index |-> LevelById(S, hits[i].level_id).order_index,
         hit_date |-> hits[i].hit_date,
         hit_price |-> LevelById(S, hits[i].level_id).price,
         units_closed |-> hits[i].units_to_close,
         remaining_units |-> S.trades[trade_id].remaining_units,
         paper_trade |-> S.trades[trade_id].paper_trade,
         auto_processed |-> S.trades[trade_id].paper_trade]]

\* The loop body of process_open_trades for one trade.  An exception
\* leaves the loop: error is then not OK and the rest is not processed.
OpenStep(acc, trade_id) ==
    LET trade == acc.S.trades[trade_id]
        Layered(layered) ==
            [acc EXCEPT
                !.error = layered.error,
                !.S = layered.S,
                !.layered_alerts = @ \o LayeredAlerts(layered.S, trade_id, layered.hits),
                !.partial_close_count = @ + Len(layered.hits)]
        Simple(hit) ==
            IF IsNone(hit) THEN acc
            ELSE [acc EXCEPT
                    !.S = IF Val(hit).hit_type # BOTH /\ trade.paper_trade
                          THEN auto_close_paper_trade(@, trade_id, Val(hit))
                          ELSE @,
                    !.sltp_alerts =
                        Append(@, [trade_id |-> trade_id,
                                   hit_type |-> Val(hit).hit_type,
                                   hit_date |-> Val(hit).hit_date,
                                   hit_price |-> Val(hit).hit_price,
                                   paper_trade |-> trade.paper_trade,
                                   auto_closed |-> Val(hit).hit_type # BOTH
                                                   /\ trade.paper_trade]),
                    !.conflict_count = @ + (IF Val(hit).hit_type = BOTH THEN 1 ELSE 0),
                    !.auto_closed_count =
                        @ + (IF Val(hit).hit_type # BOTH /\ trade.paper_trade
                             THEN 1 ELSE 0)]
    IN  IF trade.is_layered
        THEN ValueOf({Layered(layered) :
                         layered \in {process_layered_hits(acc.S, trade_id)}})
        ELSE Simple(detect_sltp_hit(acc.S, trade_id))

RECURSIVE OpenLoop(_, _)
OpenLoop(acc, open_trades) ==
    IF open_trades = <<>> \/ acc.error # OK THEN acc
    ELSE OpenLoop(OpenStep(acc, Head(open_trades)), Tail(open_trades))

process_open_trades(S) ==
    OpenLoop([error |-> OK, S |-> S, sltp_alerts |-> <<>>, layered_alerts |-> <<>>,
              auto_closed_count |-> 0, partial_close_count |-> 0, conflict_count |-> 0],
             TradeIdsWithStatus(S, OPEN))

\* A batch that evaluates the OPEN trades before it opens the PLAN trades.
process_all_trades_exits_first(S) ==
    LET Merged(opened, planned) ==
            [error |-> opened.error,
             S |-> planned.S,
             entry_alerts |-> planned.entry_alerts,
             sltp_alerts |-> opened.sltp_alerts,
             layered_alerts |-> opened.layered_alerts,
             auto_opened_count |-> planned.auto_opened_count,
             auto_closed_count |-> opened.auto_closed_count,
             partial_close_count |-> opened.partial_close_count,
             conflict_count |-> opened.conflict_count]
        ThenPlan(opened) == Merged(opened, process_plan_trades(opened.S))
    IN  ThenPlan(process_open_trades(S))

\* PLAN trades first, then the OPEN trades, those just opened included.
process_all_trades(S) ==
    LET Merged(planned, opened) ==
            [error |-> opened.error,
             S |-> opened.S,
             entry_alerts |-> planned.entry_alerts,
             sltp_alerts |-> opened.sltp_alerts,
             layered_alerts |-> opened.layered_alerts,
             auto_opened_count |-> planned.auto_opened_count,
             auto_closed_count |-> opened.auto_closed_count,
             partial_close_count |-> opened.partial_close_count,
             conflict_count |-> opened.conflict_count]
        ThenOpen(planned) ==
            ValueOf({Merged(planned, opened) :
                        opened \in {process_open_trades(planned.S)}})
    IN  ValueOf({ThenOpen(planned) : planned \in {process_plan_trades(S)}})

(***************************************************************************)
(* Inputs.                                                                  *)
(***************************************************************************)
Lv(level_type, price, units_pct, be) ==
    [level_type |-> level_type, price |-> price, units_pct |-> units_pct,
     move_sl_to_breakeven |-> be]

\* A long layered set: TP 50% with the breakeven move, TP 50%, SL 100%.
LayeredLong == << Lv(TP, 110, 5000, TRUE), Lv(TP, 120, 5000, FALSE), Lv(SL, 95, 10000, FALSE) >>
\* A single SL + TP pair given as a level list.
PairLong == << Lv(TP, 115, 10000, FALSE), Lv(SL, 97, 10000, FALSE) >>
\* TP levels summing to 80%.
BadSet == << Lv(TP, 110, 5000, FALSE), Lv(TP, 120, 3000, FALSE) >>

\* create_trade requests: a layered long trade planned on day 1 and a
\* simple short trade (stop_loss 105, take_profit 90) planned on day 2,
\* each as a paper or a real trade.
TradeRequests ==
    { [entry_price |-> 100, units |-> 100, date_planned |-> 1, sl |-> None, tp |-> None,
       paper_trade |-> p, exit_levels |-> Some(LayeredLong)] : p \in BOOLEAN }
    \cup
    { [entry_price |-> 100, units |-> 10, date_planned |-> 2, sl |-> Some(105),
       tp |-> Some(90), paper_trade |-> p, exit_levels |-> None] : p \in BOOLEAN }

\* Daily bars <<high, low>>.  For the long trade (SL 95, entry 100, TP 110
\* and 120) the first crosses entry and TP1, the second entry, SL and both
\* TPs; for the short trade (TP 90, entry 100, SL 105) the first crosses
\* entry and SL, the second entry, SL and TP.  The third lacks its high.
BarMenu ==
    { <<Some(112), Some(99)>>, <<Some(125), Some(88)>>, <<None, Some(88)>> }

\* update_trade requests.
UpdateRequests ==
    { [NoUpdates EXCEPT !.status = Some(st)] : st \in {PLAN, OPEN, CLOSE} }
    \cup
    { [NoUpdates EXCEPT !.status = Some(CLOSE), !.exit_price = Some(Frac(101, 1)),
                        !.exit_type = Some(TP)] }
    \cup
    { [NoUpdates EXCEPT !.exit_levels = ls] :
        ls \in {Some(<<>>), Some(PairLong), Some(BadSet)} }

\* hit_price of a manual hit request; its hit_date is the day of the request.
HitPrices == {None}

(***************************************************************************)
(* State machine.                                                           *)
(***************************************************************************)
\* Rows that fit under the bound on level ids.
Fits(n) == next_id + n - 1 <= MaxLevelId

Commit(S) ==
    /\ trades' = S.trades
    /\ levels' = S.levels
    /\ next_id' = S.next_id

EmptyStore == [trades |-> <<>>, levels |-> <<>>, next_id |-> 1, log |-> <<>>]

\* The store after POST /api/trades has created the user's trade.
Init ==
    \E r \in TradeRequests :
        LET out == create_trade(EmptyStore, r.entry_price, r.units, r.date_planned,
                                r.sl, r.tp, r.paper_trade, r.exit_levels)
        IN  /\ trades = out.S.trades
            /\ levels = out.S.levels
            /\ next_id = out.S.next_id
            /\ bars = <<>>
            /\ result = [op |-> "create_trade", error |-> out.error, log |-> <<>>]

\* The price bar source delivers the next day's bar.
AddBar ==
    \E b \in BarMenu :
        /\ Len(bars) < MaxBars
        /\ bars' = Append(bars, [date |-> Len(bars) + 1, high |-> b[1], low |-> b[2]])
        /\ result' = [op |-> "add_bar", error |-> OK, log |-> <<>>]
        /\ UNCHANGED <<trades, levels, next_id>>

\* POST /api/trades/detect-hits.
DetectHits ==
    LET Respond(out) ==
            /\ Commit(out.S)
            /\ result' = [op |-> "process_all_trades",
                          error |-> out.error,
                          log |-> out.S.log,
                          entry_alerts |-> out.entry_alerts,
                          sltp_alerts |-> out.sltp_alerts,
                          layered_alerts |-> out.layered_alerts,
                          auto_opened_count |-> out.auto_opened_count,
                          auto_closed_count |-> out.auto_closed_count,
                          partial_close_count |-> out.partial_close_count,
                          conflict_count |-> out.conflict_count]
            /\ UNCHANGED bars
    IN  \E out \in {process_all_trades(Store)} : Respond(out)

\* PATCH /api/trades/{trade_id}.
UpdateTrade ==
    \E trade_id \in DOMAIN trades, u \in UpdateRequests :
        LET out == update_trade(Store, trade_id, u)
        IN  /\ Fits(IF IsNone(u.exit_levels) THEN 0 ELSE Len(Val(u.exit_levels)))
            /\ Commit(out.S)
            /\ result' = [op |-> "update_trade", error |-> out.error, log |-> out.S.log]
            /\ UNCHANGED bars

MarkExitLevelHit ==
    \E trade_id \in DOMAIN trades, level_id \in 1..MaxLevelId, hit_price \in HitPrices :
        LET accepted == HitRequestAccepted(Store, trade_id, level_id)
            out == IF accepted
                   THEN apply_manual_level_hit(Store, trade_id, level_id, Today, hit_price)
                   ELSE [error |-> "HTTPException", S |-> Store]
        IN  /\ Commit(out.S)
            /\ result' = [op |-> "apply_manual_level_hit", error |-> out.error,
                          log |-> out.S.log]
            /\ UNCHANGED bars

\* DELETE /api/trades/{trade_id}/exit-levels/{level_id}/hit.
RevertExitLevelHit ==
    \E trade_id \in DOMAIN trades, level_id \in LevelIds(Store) :
        LET out == revert_level_hit(Store, trade_id, level_id)
        IN  /\ LevelById(Store, level_id).trade_id = trade_id
            /\ Commit(out.S)
            /\ result' = [op |-> "revert_level_hit", error |-> out.error,
                          log |-> out.S.log, level_id |-> level_id]
            /\ UNCHANGED bars

Next ==
    \/ AddBar
    \/ DetectHits
    \/ UpdateTrade
    \/ MarkExitLevelHit
    \/ RevertExitLevelHit

Spec == Init /\ [][Next]_vars

(***************************************************************************)
(* The ledger called directly, as the service tests call it, on a trade     *)
(* whose own level set was rejected at creation (the trade row exists, it   *)
(* has no level yet).                                                       *)
(***************************************************************************)
\* One type only, 99.95%: inside the tolerance.
SlOnlyNear == << Lv(SL, 95, 4995, FALSE), Lv(SL, 90, 5000, FALSE) >>
\* One type only, 100%.
TpOnly == << Lv(TP, 110, 10000, FALSE) >>
\* TP fine, SL levels summing to 120%.
BadSl == << Lv(TP, 110, 10000, FALSE), Lv(SL, 95, 6000, FALSE), Lv(SL, 90, 6000, FALSE) >>
\* TP levels summing to 99.85%: outside the tolerance.
NearOut == << Lv(TP, 110, 5000, FALSE), Lv(TP, 120, 4985, FALSE) >>
\* TP levels summing to 100.15%: outside the tolerance.
Over == << Lv(TP, 110, 5000, FALSE), Lv(TP, 120, 5015, FALSE), Lv(SL, 95, 10000, FALSE) >>

LedgerLevelSets ==
    {LayeredLong, PairLong, BadSet, SlOnlyNear, TpOnly, BadSl, NearOut, Over}

LedgerInit ==
    \E p \in BOOLEAN :
        LET out == create_trade(EmptyStore, 100, 100, 1, None, None, p, Some(BadSet))
        IN  /\ trades = out.S.trades
            /\ levels = out.S.levels
            /\ next_id = out.S.next_id
            /\ bars = <<>>
            /\ result = [op |-> "create_trade", error |-> out.error, log |-> <<>>]

\* create_exit_levels on a trade that has no level, as create_trade calls it.
CreateExitLevelsCall ==
    \E trade_id \in DOMAIN trades, levels_data \in LedgerLevelSets :
        LET out == create_exit_levels(Store, trade_id, levels_data)
        IN  /\ LevelsOf(Store, trade_id) = <<>>
            /\ Fits(Len(levels_data))
            /\ Commit(out.S)
            /\ result' = [op |-> "create_exit_levels", error |-> out.error, log |-> <<>>,
                          trade_id |-> trade_id, levels_data |-> levels_data]
            /\ UNCHANGED bars

MarkLevelHitCall ==
    \E level_id \in 1..MaxLevelId, hit \in {<<1, 0>>, <<MaxBars, 50>>} :
        LET hit_date == hit[1]
            units_closed == hit[2]
            out == mark_level_hit(Store, level_id, hit_date, units_closed)
        IN  /\ Commit(out.S)
            /\ result' = [op |-> "mark_level_hit", error |-> out.error, log |-> <<>>,
                          level_id |-> level_id, hit_date |-> hit_date,
                          units_closed |-> units_closed]
            /\ UNCHANGED bars

CancelRemainingLevelsCall ==
    \E trade_id \in DOMAIN trades :
        /\ Commit(cancel_remaining_levels(Store, trade_id))
        /\ result' = [op |-> "cancel_remaining_levels", error |-> OK, log |-> <<>>,
                      trade_id |-> trade_id]
        /\ UNCHANGED bars

ReplaceExitLevelsCall ==
    \E trade_id \in DOMAIN trades,
       levels_data \in {None, Some(PairLong), Some(BadSl)} :
        LET out == replace_exit_levels(Store, trade_id, levels_data)
        IN  /\ Fits(IF IsNone(levels_data) THEN 0 ELSE Len(Val(levels_data)))
            /\ Commit(out.S)
            /\ result' = [op |-> "replace_exit_levels", error |-> out.error, log |-> <<>>,
                          trade_id |-> trade_id, is_layered |-> out.is_layered]
            /\ UNCHANGED bars

LedgerNext ==
    \/ CreateExitLevelsCall
    \/ MarkLevelHitCall
    \/ CancelRemainingLevelsCall
    \/ ReplaceExitLevelsCall

LedgerSpec == LedgerInit /\ [][LedgerNext]_vars

(***************************************************************************)
(* Two trades of one user: a layered long trade and a simple short trade    *)
(* on the same ticker, the batch run over both, and the cancellation of     *)
(* one trade's levels.                                                      *)
(***************************************************************************)
PortfolioInit ==
    \E p1 \in BOOLEAN, p2 \in BOOLEAN :
        LET Second(first) ==
                create_trade(first.S, 100, 10, 1, Some(105), Some(90), p2, None)
            Both(out) ==
                /\ trades = out.S.trades
                /\ levels = out.S.levels
                /\ next_id = out.S.next_id
                /\ bars = <<>>
                /\ result = [op |-> "create_trade", error |-> out.error, log |-> <<>>]
        IN  Both(Second(create_trade(EmptyStore, 100, 100, 1, None, None, p1,
                                     Some(LayeredLong))))

PortfolioNext ==
    \/ AddBar
    \/ DetectHits
    \/ CancelRemainingLevelsCall

PortfolioSpec == PortfolioInit /\ [][PortfolioNext]_vars

(***************************************************************************)
(* A layered long paper trade of a few units, so that a level's share of    *)
(* the units has a fractional part or is below one unit, next to a planned  *)
(* simple short trade that is not a paper trade.                            *)
(***************************************************************************)
MaxUnits == 4

\* TP 1% and TP 99%.
TinyFirst == << Lv(TP, 110, 100, FALSE), Lv(TP, 120, 9900, FALSE), Lv(SL, 95, 10000, FALSE) >>
\* TP 25% and TP 75%.
QuarterFirst == << Lv(TP, 110, 2500, FALSE), Lv(TP, 120, 7500, FALSE), Lv(SL, 95, 10000, FALSE) >>

ScanInit ==
    \E units \in 1..MaxUnits, levels_data \in {LayeredLong, TinyFirst, QuarterFirst} :
        LET Second(first) ==
                create_trade(first.S, 100, 10, 1, Some(105), Some(90), FALSE, None)
            Created(out) ==
                /\ trades = out.S.trades
                /\ levels = out.S.levels
                /\ next_id = out.S.next_id
                /\ bars = <<>>
                /\ result = [op |-> "create_trade", error |-> out.error, log |-> <<>>]
        IN  Created(Second(create_trade(EmptyStore, 100, units, 1, None, None, TRUE,
                                        Some(levels_data))))

\* The price a manual hit request gives to override the level's price.
OverridePrices == {Some(111)}

\* The manual hit request with hit_price given.
MarkExitLevelHitAtPrice ==
    \E trade_id \in DOMAIN trades, level_id \in 1..MaxLevelId, hit_price \in OverridePrices :
        LET accepted == HitRequestAccepted(Store, trade_id, level_id)
            out == IF accepted
                   THEN apply_manual_level_hit(Store, trade_id, level_id, Today, hit_price)
                   ELSE [error |-> "HTTPException", S |-> Store]
        IN  /\ Commit(out.S)
            /\ result' = [op |-> "apply_manual_level_hit", error |-> out.error,
                          log |-> out.S.log, level_id |-> level_id,
                          hit_price |-> hit_price]
            /\ UNCHANGED bars

\* The update request that opens the planned layered trade by hand.
OpenLayeredTrade ==
    \E trade_id \in DOMAIN trades :
        LET out == update_trade(Store, trade_id, [NoUpdates EXCEPT !.status = Some(OPEN)])
        IN  /\ trades[trade_id].status = PLAN
            /\ trades[trade_id].is_layered
            /\ Commit(out.S)
            /\ result' = [op |-> "update_trade", error |-> out.error, log |-> out.S.log]
            /\ UNCHANGED bars

ScanNext ==
    \/ AddBar
    \/ DetectHits
    \/ OpenLayeredTrade
    \/ MarkExitLevelHit
    \/ MarkExitLevelHitAtPrice

ScanSpec == ScanInit /\ [][ScanNext]_vars

(***************************************************************************)
(* An open layered long trade and bars that rise through its TP levels      *)
(* without reaching its SL level.                                           *)
(***************************************************************************)
\* TP 50% at 110, 30% at 120, 20% at 130, SL 100% at 95.
ThreeTp ==
    << Lv(TP, 110, 5000, FALSE), Lv(TP, 120, 3000, FALSE), Lv(TP, 130, 2000, FALSE),
       Lv(SL, 95, 10000, FALSE) >>

RallyUnits == (1..MaxUnits) \cup {100}

\* <<high, low>>: TP1 only, TP1 and TP2, every TP level, every level.
RallyBars ==
    { <<Some(112), Some(99)>>, <<Some(125), Some(99)>>, <<Some(135), Some(99)>>,
      <<Some(135), Some(90)>> }

\* The trade is created and then opened with date_actual = day 1.
RallyInit ==
    \E units \in RallyUnits, levels_data \in {ThreeTp, LayeredLong, QuarterFirst},
       paper_trade \in BOOLEAN :
        LET Opened(created) ==
                update_trade(created.S, 1,
                             [NoUpdates EXCEPT !.status = Some(OPEN),
                                               !.date_actual = Some(1)])
            Ready(out) ==
                /\ trades = out.S.trades
                /\ levels = out.S.levels
                /\ next_id = out.S.next_id
                /\ bars = <<>>
                /\ result = [op |-> "update_trade", error |-> out.error, log |-> out.S.log]
        IN  Ready(Opened(create_trade(EmptyStore, 100, units, 1, None, None, paper_trade,
                                      Some(levels_data))))

AddRallyBar ==
    \E b \in RallyBars :
        /\ Len(bars) < MaxBars
        /\ bars' = Append(bars, [date |-> Len(bars) + 1, high |-> b[1], low |-> b[2]])
        /\ result' = [op |-> "add_bar", error |-> OK, log |-> <<>>]
        /\ UNCHANGED <<trades, levels, next_id>>

\* A call of detect_layered_hits alone, and the commit of its session.
DetectLayeredHitsCall ==
    \E trade_id \in DOMAIN trades :
        \E after \in {SessionAfterScan(Store, trade_id)} :
            /\ Commit(after)
            /\ result' = [op |-> "detect_layered_hits", error |-> OK, log |-> <<>>,
                          trade_id |-> trade_id,
                          hits |-> detect_layered_hits(Store, trade_id)]
            /\ UNCHANGED bars

RallyNext ==
    \/ AddRallyBar
    \/ DetectHits
    \/ DetectLayeredHitsCall

RallySpec == RallyInit /\ [][RallyNext]_vars

(***************************************************************************)
(* One trade, simple long, simple short or layered long, planned for any    *)
(* day, and bars that cross its entry, its SL, its TP, several of them or   *)
(* none, or that lack their high or their low.                              *)
(***************************************************************************)
\* The stop_loss, take_profit and exit_levels arguments of create_trade,
\* around the entry price 100: a simple long trade, a simple short trade and
\* a layered long trade.
DetectionTrades ==
    { [stop_loss |-> Some(97), take_profit |-> Some(115), exit_levels |-> None],
      [stop_loss |-> Some(105), take_profit |-> Some(90), exit_levels |-> None],
      [stop_loss |-> None, take_profit |-> None, exit_levels |-> Some(LayeredLong)] }

\* <<high, low>>.
DetectionBars ==
    { <<Some(112), Some(99)>>, <<Some(104), Some(101)>>, <<Some(99), Some(96)>>,
      <<Some(120), Some(88)>>, <<None, Some(88)>>, <<Some(120), None>>,
      <<Some(116), Some(101)>>, <<Some(99), Some(89)>> }

DetectionInit ==
    \E request \in DetectionTrades, date_planned \in 1..MaxBars, paper_trade \in BOOLEAN :
        LET Created(out) ==
                /\ trades = out.S.trades
                /\ levels = out.S.levels
                /\ next_id = out.S.next_id
                /\ bars = <<>>
                /\ result = [op |-> "create_trade", error |-> out.error, log |-> <<>>]
        IN  Created(create_trade(EmptyStore, 100, 10, date_planned, request.stop_loss,
                                 request.take_profit, paper_trade, request.exit_levels))

AddDetectionBar ==
    \E b \in DetectionBars :
        /\ Len(bars) < MaxBars
        /\ bars' = Append(bars, [date |-> Len(bars) + 1, high |-> b[1], low |-> b[2]])
        /\ result' = [op |-> "add_bar", error |-> OK, log |-> <<>>]
        /\ UNCHANGED <<trades, levels, next_id>>

\* The update request that opens a planned trade by hand.
OpenTradeByHand ==
    \E trade_id \in DOMAIN trades :
        LET out == update_trade(Store, trade_id, [NoUpdates EXCEPT !.status = Some(OPEN)])
        IN  /\ trades[trade_id].status = PLAN
            /\ Commit(out.S)
            /\ result' = [op |-> "update_trade", error |-> out.error, log |-> out.S.log]
            /\ UNCHANGED bars

DetectionNext ==
    \/ AddDetectionBar
    \/ DetectHits
    \/ OpenTradeByHand

DetectionSpec == DetectionInit /\ [][DetectionNext]_vars

(***************************************************************************)
(* An open layered long trade and a planned simple short trade of one user, *)
(* and a batch run during which the user marks one of the layered trade's   *)
(* pending levels as hit by hand.                                           *)
(***************************************************************************)
RaceInit ==
    \E p1 \in BOOLEAN, p2 \in BOOLEAN :
        \E first \in {create_trade(EmptyStore, 100, 100, 1, None, None, p1,
                                   Some(LayeredLong))} :
            \E both \in {create_trade(first.S, 100, 10, 1, Some(105), Some(90), p2,
                                      None)} :
                \E out \in {update_trade(both.S, 1,
                                         [NoUpdates EXCEPT !.status = Some(OPEN),
                                                           !.date_actual = Some(1)])} :
                    /\ trades = out.S.trades
                    /\ levels = out.S.levels
                    /\ next_id = out.S.next_id
                    /\ bars = <<>>
                    /\ result = [op |-> "update_trade", error |-> out.error,
                                 log |-> <<>>]

\* POST /api/trades/detect-hits while a mark-as-hit request of the same user
\* is on its way.  An exception leaves process_all_trades and the endpoint:
\* the response is an error without alerts and counts.
DetectHitsDuringHitRequest ==
    \E trade_id \in DOMAIN trades, level_id \in LevelIds(Store) :
        LET request == [trade_id |-> trade_id, level_id |-> level_id]
            Respond(out, final) ==
                /\ Commit(final)
                /\ result' = [op |-> "process_all_trades",
                              error |-> out.error,
                              log |-> out.S.log,
                              in_flight |-> request,
                              entry_alerts |->
                                  IF out.error = OK THEN out.entry_alerts ELSE <<>>,
                              sltp_alerts |->
                                  IF out.error = OK THEN out.sltp_alerts ELSE <<>>,
                              layered_alerts |->
                                  IF out.error = OK THEN out.layered_alerts ELSE <<>>,
                              auto_opened_count |->
                                  IF out.error = OK THEN out.auto_opened_count ELSE 0,
                              auto_closed_count |->
                                  IF out.error = OK THEN out.auto_closed_count ELSE 0,
                              partial_close_count |->
                                  IF out.error = OK THEN out.partial_close_count ELSE 0,
                              conflict_count |->
                                  IF out.error = OK THEN out.conflict_count ELSE 0]
                /\ UNCHANGED bars
        IN  /\ HitRequestAccepted(Store, trade_id, level_id)
            /\ \E out \in {process_all_trades([trades |-> trades, levels |-> levels,
                                                next_id |-> next_id, log |-> <<>>,
                                                in_flight |-> <<request>>])} :
                   \E final \in {OtherSessionsCommit(out.S)} : Respond(out, final)

RaceNext ==
    \/ AddBar
    \/ DetectHits
    \/ DetectHitsDuringHitRequest

RaceSpec == RaceInit /\ [][RaceNext]_vars

(***************************************************************************)
(* One trade, planned, and the PATCH requests that open it, set its exit    *)
(* fields and close it by hand.                                             *)
(***************************************************************************)
\* TradeUpdateRequest: status, exit_price, exit_type and exit_date, each
\* present or absent; the schema accepts an exit price of 0.0.
CloseRequests ==
    { [NoUpdates EXCEPT !.status = st, !.exit_price = ep, !.exit_type = et,
                        !.exit_date = ed] :
        st \in {None, Some(OPEN), Some(CLOSE)},
        ep \in {None, Some(Frac(0, 1)), Some(Frac(101, 1))},
        et \in {None, Some(TP), Some(SL)},
        ed \in {None, Some(1)} }

CloseInit ==
    \E exit_levels \in {None, Some(LayeredLong)}, paper_trade \in BOOLEAN :
        \E out \in {create_trade(EmptyStore, 100, 10, 1, Some(97), Some(115),
                                 paper_trade, exit_levels)} :
            /\ trades = out.S.trades
            /\ levels = out.S.levels
            /\ next_id = out.S.next_id
            /\ bars = <<>>
            /\ result = [op |-> "create_trade", error |-> out.error, log |-> <<>>]

\* PATCH /api/trades/{trade_id}.
UpdateTradeRequest ==
    \E trade_id \in DOMAIN trades, updates \in CloseRequests :
        \E out \in {update_trade(Store, trade_id, updates)} :
            /\ Commit(out.S)
            /\ result' = [op |-> "update_trade", error |-> out.error, log |-> out.S.log,
                          trade_id |-> trade_id, updates |-> updates]
            /\ UNCHANGED bars

\* Requests that carry a level set next to a status and exit fields.
LevelsAndStatusRequests ==
    { [NoUpdates EXCEPT !.status = st, !.exit_price = ep, !.exit_type = et,
                        !.exit_levels = ls] :
        st \in {None, Some(OPEN), Some(CLOSE)},
        ep \in {None, Some(Frac(101, 1))},
        et \in {None, Some(TP)},
        ls \in {Some(<<>>), Some(PairLong), Some(BadSet)} }

\* PATCH /api/trades/{trade_id} with exit_levels in the request.
UpdateTradeLevelsRequest ==
    \E trade_id \in DOMAIN trades, updates \in LevelsAndStatusRequests :
        \E out \in {update_trade(Store, trade_id, updates)} :
            /\ Fits(Len(Val(updates.exit_levels)))
            /\ Commit(out.S)
            /\ result' = [op |-> "update_trade", error |-> out.error, log |-> out.S.log,
                          trade_id |-> trade_id, updates |-> updates]
            /\ UNCHANGED bars

CloseNext ==
    \/ UpdateTradeRequest
    \/ UpdateTradeLevelsRequest
    \/ ReplaceExitLevelsCall

CloseSpec == CloseInit /\ [][CloseNext]_vars

(***************************************************************************)
(* One planned trade whose every transition is made by the batch.           *)
(***************************************************************************)
BatchNext ==
    \/ AddDetectionBar
    \/ DetectHits

BatchSpec == DetectionInit /\ [][BatchNext]_vars

(***************************************************************************)
(* Properties.                                                             *)
(***************************************************************************)
TradeIds == DOMAIN trades

LevelsNow(trade_id) == SeqFilter(levels, LAMBDA l : l.trade_id = trade_id)
LevelsNext(trade_id) == SeqFilter(levels', LAMBDA l : l.trade_id = trade_id)

\* C1: every status change an operation makes (update_trade, the batch run,
\* process_layered_hits, apply_manual_level_hit) is Plan to Open or Open to
\* Close; no trade goes back or skips a stage.
C1_StatusChangesFollowLifecycle ==
    \A i \in DOMAIN result.log :
        <<result.log[i][2], result.log[i][3]>> \in {<<PLAN, OPEN>>, <<OPEN, CLOSE>>}

\* C2: remaining_units is never negative, and a trade whose remaining_units
\* is zero is closed.
C2_RemainingUnitsBounded ==
    \A t \in TradeIds :
        /\ trades[t].remaining_units >= 0
        /\ trades[t].remaining_units = 0 => trades[t].status = CLOSE

\* C3: a batch run leaves every trade whose paper_trade flag is false, and
\* every exit level of such a trade, exactly as it found them.
C3_BatchLeavesRealTradesAlone ==
    [][result'.op = "process_all_trades" =>
          \A t \in TradeIds :
              ~trades[t].paper_trade =>
                  /\ trades'[t] = trades[t]
                  /\ LevelsNext(t) = LevelsNow(t)]_vars

\* A trade with exactly one SL level and one TP level.
SinglePair(trade_id) ==
    /\ Len(SeqFilter(LevelsNow(trade_id), LAMBDA l : l.level_type = SL)) = 1
    /\ Len(SeqFilter(LevelsNow(trade_id), LAMBDA l : l.level_type = TP)) = 1

\* The first bar on which the trade's SL or TP is crossed crosses both.
FirstHitBarCrossesBoth(trade_id) ==
    /\ ~IsNone(detect_sltp_hit(Store, trade_id))
    /\ Val(detect_sltp_hit(Store, trade_id)).hit_type = BOTH

\* C4: when the first bar that hits an Open trade with a single SL and a
\* single TP level crosses both, the batch run reports a conflict for it and
\* changes neither the trade nor its levels, paper trade or not.
C4_ConflictReportedNothingChanged ==
    [][result'.op = "process_all_trades" =>
          \A t \in TradeIds :
              (trades[t].status = OPEN /\ SinglePair(t) /\ FirstHitBarCrossesBoth(t)) =>
                  /\ result'.conflict_count >= 1
                  /\ trades'[t] = trades[t]
                  /\ LevelsNext(t) = LevelsNow(t)]_vars

\* C5: a batch run that follows a batch run over the same market data finds
\* no new hit and changes no level and no trade.
C5_RescanIsIdempotent ==
    [][(result.op = "process_all_trades" /\ result'.op = "process_all_trades") =>
          /\ trades' = trades
          /\ levels' = levels
          /\ result'.partial_close_count = 0
          /\ result'.auto_opened_count = 0
          /\ result'.auto_closed_count = 0]_vars

\* C6: when a hit on a layered trade brings remaining_units to zero and the
\* trade is closed by final settlement, by the batch run or by a manual hit,
\* none of its levels is left Pending.
C6_SettlementCancelsPending ==
    [][\A t \in TradeIds :
          (/\ result'.op \in {"process_all_trades", "apply_manual_level_hit"}
           /\ trades[t].is_layered
           /\ trades[t].status = OPEN
           /\ trades'[t].status = CLOSE) =>
              \A i \in DOMAIN LevelsNext(t) : LevelsNext(t)[i].status # PENDING]_vars

\* C7: when update_trade closes an Open trade, every level of the trade that
\* was Pending is Cancelled and every level that was Hit stays Hit.
C7_ManualCloseCancelsPending ==
    [][\A t \in TradeIds :
          (/\ result'.op = "update_trade"
           /\ result'.error = OK
           /\ trades[t].status = OPEN
           /\ trades'[t].status = CLOSE) =>
              /\ DOMAIN levels' = DOMAIN levels
              /\ \A i \in DOMAIN levels :
                     levels[i].trade_id = t =>
                         levels'[i].status =
                             IF levels[i].status = PENDING THEN CANCELLED
                             ELSE levels[i].status]_vars

\* The percentages of one type in a requested level set, added up.
RequestedPct(levels_data, level_type) ==
    SeqSum(levels_data,
           LAMBDA l : IF l.level_type = level_type THEN l.units_pct ELSE 0)

HasType(levels_data, level_type) ==
    \E i \in DOMAIN levels_data : levels_data[i].level_type = level_type

\* The type is present and its percentages are more than 0.1% away from 100%.
OffBy(levels_data, level_type) ==
    /\ HasType(levels_data, level_type)
    /\ \/ RequestedPct(levels_data, level_type) > PctScale + Tolerance
       \/ RequestedPct(levels_data, level_type) < PctScale - Tolerance

\* C8: create_exit_levels raises ExitLevelValidationError and creates no
\* level when the TP or the SL percentages of the set are more than 0.1% away
\* from 100%; otherwise, also when one type is absent, it creates the set.
C8_CreateValidatesSums ==
    [][result'.op = "create_exit_levels" =>
          IF OffBy(result'.levels_data, TP) \/ OffBy(result'.levels_data, SL)
          THEN /\ result'.error = ExitLevelValidationError
               /\ levels' = levels
               /\ next_id' = next_id
          ELSE /\ result'.error = OK
               /\ Len(levels') = Len(levels) + Len(result'.levels_data)]_vars

\* A set whose SL percentages are off was refused and the trade has no level.
C8_Witness ==
    /\ result.op = "create_exit_levels"
    /\ result.error = ExitLevelValidationError
    /\ OffBy(result.levels_data, SL)
    /\ levels = <<>>

\* The not cancelled levels of one type of a trade.
LiveOfType(trade_id, level_type) ==
    SeqFilter(LevelsNow(trade_id),
              LAMBDA l : l.level_type = level_type /\ l.status # CANCELLED)

\* C9: in every reachable state, for each trade and each level type that has
\* a not cancelled level on it, those levels' percentages sum to 100% within
\* 0.1%.
C9_LiveLevelsSumTo100 ==
    \A t \in TradeIds : \A ty \in {SL, TP} :
        LiveOfType(t, ty) # <<>> =>
            Abs(PctSum(LiveOfType(t, ty)) - PctScale) <= Tolerance

\* The levels of one type that the step created.
CreatedOfType(level_type) ==
    SeqFilter(levels', LAMBDA l : l.id >= next_id /\ l.level_type = level_type)

\* C9, amended: the levels of each type that one call creates sum to 100%
\* within 0.1%; the sum over all not cancelled levels of a trade is not kept.
C9_CreatedLevelsSumTo100 ==
    [][\A ty \in {SL, TP} :
          CreatedOfType(ty) # <<>> =>
              Abs(PctSum(CreatedOfType(ty)) - PctScale) <= Tolerance]_vars

\* replace_exit_levels created a set next to a level that was already hit.
C9_Witness ==
    /\ result.op = "replace_exit_levels"
    /\ result.error = OK
    /\ \E i, j \in DOMAIN levels :
          /\ levels[i].status = HIT
          /\ levels[j].status = PENDING
          /\ levels[j].id > levels[i].id

\* C10: mark_level_hit on a Pending level makes it Hit with exactly the
\* given hit_date and units_closed and touches no other level; on a level
\* that is Hit, Cancelled or absent it raises ExitLevelValidationError and
\* changes no level.
C10_MarkLevelHit ==
    [][result'.op = "mark_level_hit" =>
          IF \E i \in DOMAIN levels :
                 levels[i].id = result'.level_id /\ levels[i].status = PENDING
          THEN /\ result'.error = OK
               /\ DOMAIN levels' = DOMAIN levels
               /\ \A i \in DOMAIN levels :
                      IF levels[i].id = result'.level_id
                      THEN levels'[i] = [levels[i] EXCEPT
                                            !.status = HIT,
                                            !.hit_date = Some(result'.hit_date),
                                            !.units_closed = Some(result'.units_closed)]
                      ELSE levels'[i] = levels[i]
          ELSE /\ result'.error = ExitLevelValidationError
               /\ levels' = levels]_vars

\* mark_level_hit was refused on a level that is there and already Hit.
C10_Witness ==
    /\ result.op = "mark_level_hit"
    /\ result.error = ExitLevelValidationError
    /\ \E i \in DOMAIN levels :
          levels[i].id = result.level_id /\ levels[i].status = HIT

\* C11: revert_level_hit succeeds exactly when the level is Hit and its
\* trade is Open, and then makes the level Pending with hit_date and
\* units_closed cleared; otherwise it raises ExitLevelValidationError and
\* changes no level and no trade.
C11_RevertOnlyHitOfOpenTrade ==
    [][result'.op = "revert_level_hit" =>
          \A i \in DOMAIN levels :
              levels[i].id = result'.level_id =>
                  IF levels[i].status = HIT /\ trades[levels[i].trade_id].status = OPEN
                  THEN /\ result'.error = OK
                       /\ levels' = [levels EXCEPT ![i].status = PENDING,
                                                   ![i].hit_date = None,
                                                   ![i].units_closed = None]
                  ELSE /\ result'.error = ExitLevelValidationError
                       /\ levels' = levels
                       /\ trades' = trades]_vars

\* A revert was refused on a Hit level because its trade is closed.
C11_Witness ==
    /\ result.op = "revert_level_hit"
    /\ result.error = ExitLevelValidationError
    /\ \E i \in DOMAIN levels :
          /\ levels[i].id = result.level_id
          /\ levels[i].status = HIT
          /\ trades[levels[i].trade_id].status = CLOSE

\* The store after a manual hit on the level, and after the revert that
\* follows it.
AfterManualHit(trade_id, level_id) ==
    apply_manual_level_hit(Store, trade_id, level_id, Today, None).S

AfterHitAndRevert(trade_id, level_id) ==
    revert_level_hit(AfterManualHit(trade_id, level_id), trade_id, level_id)

\* C12: a manual hit that leaves the trade Open, followed by the revert of
\* the same level, succeeds, gives remaining_units the value it had before
\* the hit and leaves the level Pending with hit_date and units_closed
\* cleared.
C12_HitThenRevertRestores ==
    \A t \in TradeIds : \A id \in LevelIds(Store) :
        (/\ HitRequestAccepted(Store, t, id)
         /\ AfterManualHit(t, id).trades[t].status = OPEN) =>
            /\ AfterHitAndRevert(t, id).error = OK
            /\ AfterHitAndRevert(t, id).S.trades[t].remaining_units
                   = trades[t].remaining_units
            /\ LevelById(AfterHitAndRevert(t, id).S, id).status = PENDING
            /\ LevelById(AfterHitAndRevert(t, id).S, id).hit_date = None
            /\ LevelById(AfterHitAndRevert(t, id).S, id).units_closed = None

\* With no bar delivered yet (so the hit was a manual one), a level has been
\* reverted and its trade, still Open, has all its units again.
C12_Witness ==
    /\ result.op = "revert_level_hit"
    /\ result.error = OK
    /\ bars = <<>>
    /\ \E t \in TradeIds :
          /\ trades[t].status = OPEN
          /\ trades[t].remaining_units = trades[t].units
          /\ LevelById(Store, result.level_id).trade_id = t
          /\ LevelById(Store, result.level_id).status = PENDING

\* C13: cancel_remaining_levels makes every Pending level of the trade
\* Cancelled and changes nothing else: Hit and Cancelled levels of the trade,
\* every level of another trade and every trade stay as they were.
C13_CancelTouchesOnlyPending ==
    [][result'.op = "cancel_remaining_levels" =>
          /\ trades' = trades
          /\ levels' = [i \in DOMAIN levels |->
                          IF levels[i].trade_id = result'.trade_id
                             /\ levels[i].status = PENDING
                          THEN [levels[i] EXCEPT !.status = CANCELLED]
                          ELSE levels[i]]]_vars

\* A trade with a Hit level had its Pending levels cancelled while the other
\* trade still has a Pending level.
C13_Witness ==
    /\ result.op = "cancel_remaining_levels"
    /\ \E i, j, k \in DOMAIN levels :
          /\ levels[i].trade_id = result.trade_id /\ levels[i].status = HIT
          /\ levels[j].trade_id = result.trade_id /\ levels[j].status = CANCELLED
          /\ levels[k].trade_id # result.trade_id /\ levels[k].status = PENDING

\* The levels a replacement for the trade has to keep: all but the trade's
\* Pending ones, in table order.
KeptByReplace(trade_id) ==
    SeqFilter(levels, LAMBDA l : ~(l.trade_id = trade_id /\ l.status = PENDING))

\* C14: a replace_exit_levels call that returns removes the trade's Pending
\* levels and nothing else: afterwards the table holds every other level
\* unchanged (Hit levels with their price, units_pct, hit_date and
\* units_closed), followed by the newly created Pending levels of the trade.
C14_ReplaceKeepsNonPending ==
    [][(result'.op = "replace_exit_levels" /\ result'.error = OK) =>
          /\ Len(levels') >= Len(KeptByReplace(result'.trade_id))
          /\ SubSeq(levels', 1, Len(KeptByReplace(result'.trade_id)))
                 = KeptByReplace(result'.trade_id)
          /\ \A i \in (Len(KeptByReplace(result'.trade_id)) + 1)..Len(levels') :
                 /\ levels'[i].status = PENDING
                 /\ levels'[i].trade_id = result'.trade_id
                 /\ levels'[i].id >= next_id]_vars

\* A replacement created new Pending levels next to a Hit and a Cancelled
\* level that it kept.
C14_Witness ==
    /\ result.op = "replace_exit_levels"
    /\ result.error = OK
    /\ \E i, j, k \in DOMAIN levels :
          /\ levels[i].status = HIT
          /\ levels[j].status = CANCELLED
          /\ levels[k].status = PENDING
          /\ levels[k].id > levels[i].id
          /\ levels[k].id > levels[j].id

\* C15: the "is layered" value replace_exit_levels returns is true exactly
\* when more than 2 levels remain on the trade after the call.
C15_LayeredIffMoreThanTwoLevels ==
    (result.op = "replace_exit_levels" /\ result.error = OK) =>
        (result.is_layered <=> Len(LevelsNow(result.trade_id)) > LayeredThreshold)

\* The positions of the trade's levels that the step turns from Pending to
\* Hit.
NewlyHit(trade_id) ==
    {i \in DOMAIN levels : /\ levels[i].trade_id = trade_id
                           /\ levels[i].status = PENDING
                           /\ levels'[i].status = HIT}

\* min(max(round(units * units_pct), 1), remaining_units).
RoundedFlooredCapped(units, units_pct, remaining_units) ==
    LET rounded == RoundHalfEven(units * units_pct, PctScale)
        floored == IF rounded < 1 THEN 1 ELSE rounded
    IN  IF floored > remaining_units THEN remaining_units ELSE floored

\* C16: a batch run or a manual hit that marks one level of a trade records
\* min(max(round(units * units_pct), 1), remaining units before the hit) as
\* the level's units_closed.
C16_EveryPathClosesSameUnits ==
    [][(result'.op \in {"process_all_trades", "apply_manual_level_hit"}
        /\ result'.error = OK) =>
          \A t \in DOMAIN trades :
              Cardinality(NewlyHit(t)) = 1 =>
                  \A i \in NewlyHit(t) :
                      Val(levels'[i].units_closed) =
                          RoundedFlooredCapped(trades[t].units, levels[i].units_pct,
                                               trades[t].remaining_units)]_vars

\* The layered alerts of one trade in the response of the batch run the
\* step makes, in the order the hits were processed.
AlertsOf(trade_id) ==
    SeqFilter(result'.layered_alerts, LAMBDA a : a.trade_id = trade_id)

\* The units_pct of the level an alert is about.
PctOfAlert(a) ==
    LET i == CHOOSE j \in DOMAIN levels :
                 /\ levels[j].trade_id = a.trade_id
                 /\ levels[j].level_type = a.level_type
                 /\ levels[j].order_index = a.level_index
    IN  levels[i].units_pct

\* The units closed by the hits before the k-th of the sequence.
ClosedBefore(hits, k) == SeqSum(SubSeq(hits, 1, k - 1), LAMBDA a : a.units_closed)

\* C17: in one batch run the units closed over the hits of a layered trade
\* add up to at most the remaining_units the trade had before the run, the
\* trade's remaining_units goes down by that sum and stays at 0 or above, and
\* a hit level whose share int(units * units_pct) is 0 closes 1 unit when at
\* least 1 unit remained when it was reached.
C17_AutomaticPathNeverUnderflows ==
    [][(result'.op = "process_all_trades" /\ result'.error = OK) =>
          \A t \in DOMAIN trades :
              AlertsOf(t) # <<>> =>
                  /\ ClosedBefore(AlertsOf(t), Len(AlertsOf(t)) + 1)
                         <= trades[t].remaining_units
                  /\ trades'[t].remaining_units =
                         trades[t].remaining_units
                             - ClosedBefore(AlertsOf(t), Len(AlertsOf(t)) + 1)
                  /\ trades'[t].remaining_units >= 0
                  /\ \A k \in DOMAIN AlertsOf(t) :
                         (/\ IntTrunc(trades[t].units * PctOfAlert(AlertsOf(t)[k]),
                                      PctScale) = 0
                          /\ trades[t].remaining_units
                                 - ClosedBefore(AlertsOf(t), k) >= 1)
                             => AlertsOf(t)[k].units_closed = 1]_vars

\* A batch run closed the last unit of a trade on two levels hit by one bar,
\* the second of them closing nothing, after an earlier run had closed 1 unit
\* on a level whose share is 0.
C17_Witness ==
    /\ result.op = "process_all_trades"
    /\ result.error = OK
    /\ Len(result.layered_alerts) >= 2
    /\ \E k \in DOMAIN result.layered_alerts :
          /\ result.layered_alerts[k].units_closed = 0
          /\ result.layered_alerts[k].remaining_units = 0
    /\ \E i \in DOMAIN levels :
          /\ levels[i].status = HIT
          /\ IntTrunc(trades[levels[i].trade_id].units * levels[i].units_pct, PctScale) = 0
          /\ levels[i].units_closed = Some(1)

\* The share of a level: int(units * units_pct), at least 1.  It is a
\* function of the trade's original units and the level's percentage only.
OwnShare(units, units_pct) ==
    IF IntTrunc(units * units_pct, PctScale) < 1 THEN 1
    ELSE IntTrunc(units * units_pct, PctScale)

\* C18 as stated: every level hit by a batch run closes its share of the
\* original units, whatever was hit before it.
C18_UnitsDependOnlyOnShare ==
    [][(result'.op = "process_all_trades" /\ result'.error = OK) =>
          \A t \in DOMAIN trades :
              \A k \in DOMAIN AlertsOf(t) :
                  AlertsOf(t)[k].units_closed =
                      OwnShare(trades[t].units, PctOfAlert(AlertsOf(t)[k]))]_vars

\* C18, amended: every level hit by a batch run closes its share of the
\* original units when that many units remain at the time it is reached, and
\* the units that remain otherwise.
C18_ShareCappedAtRemaining ==
    [][(result'.op = "process_all_trades" /\ result'.error = OK) =>
          \A t \in DOMAIN trades :
              \A k \in DOMAIN AlertsOf(t) :
                  AlertsOf(t)[k].units_closed =
                      IF OwnShare(trades[t].units, PctOfAlert(AlertsOf(t)[k]))
                            > trades[t].remaining_units - ClosedBefore(AlertsOf(t), k)
                      THEN trades[t].remaining_units - ClosedBefore(AlertsOf(t), k)
                      ELSE OwnShare(trades[t].units, PctOfAlert(AlertsOf(t)[k]))]_vars

\* A batch run hit a level that closed its whole share and, after it, a
\* level that closed fewer units than its share.
C18_Witness ==
    /\ result.op = "process_all_trades"
    /\ result.error = OK
    /\ \E j, k \in DOMAIN result.layered_alerts :
          /\ j < k
          /\ result.layered_alerts[j].trade_id = result.layered_alerts[k].trade_id
          /\ result.layered_alerts[j].units_closed =
                 OwnShare(trades[result.layered_alerts[j].trade_id].units,
                          PctOfAlert(result.layered_alerts[j]))
          /\ result.layered_alerts[k].units_closed <
                 OwnShare(trades[result.layered_alerts[k].trade_id].units,
                          PctOfAlert(result.layered_alerts[k]))

\* The alert is about the level at position i.
IsAlertOf(a, i) ==
    /\ a.trade_id = levels[i].trade_id
    /\ a.level_type = levels[i].level_type
    /\ a.level_index = levels[i].order_index

\* The level at position j is a TP level with move_sl_to_breakeven set.
FlaggedTp(j) == levels[j].level_type = TP /\ levels[j].move_sl_to_breakeven

\* The level at position i was Pending when the step processed the hit of a
\* flagged TP level of its trade: the manual hit is that hit, or the batch run
\* processed such a hit and had not processed a hit of level i before it.
PendingAtFlaggedTpHit(i) ==
    /\ levels[i].status = PENDING
    /\ IF result'.op = "apply_manual_level_hit"
       THEN \E j \in NewlyHit(levels[i].trade_id) : FlaggedTp(j)
       ELSE \E k \in DOMAIN result'.layered_alerts :
               /\ \E j \in DOMAIN levels :
                      /\ levels[j].trade_id = levels[i].trade_id
                      /\ FlaggedTp(j)
                      /\ IsAlertOf(result'.layered_alerts[k], j)
               /\ \A h \in 1..(k - 1) : ~IsAlertOf(result'.layered_alerts[h], i)

\* The price the breakeven rule gives the level at position i.
BreakevenPrice(i) ==
    IF levels[i].level_type = SL /\ PendingAtFlaggedTpHit(i)
    THEN trades[levels[i].trade_id].entry_price
    ELSE levels[i].price

\* C19 as stated: after a batch run or a manual hit, the SL levels that were
\* Pending when a flagged TP level of their trade was hit have price =
\* entry_price, and every other level of every trade has the price it had.
C19_OnlyPendingSlMoveToEntry ==
    [][(result'.op \in {"process_all_trades", "apply_manual_level_hit"}
        /\ result'.error = OK) =>
          \A i \in DOMAIN levels : levels'[i].price = BreakevenPrice(i)]_vars

\* The step is a manual hit of the level at position i with a hit_price.
OverriddenByRequest(i) ==
    /\ result'.op = "apply_manual_level_hit"
    /\ "hit_price" \in DOMAIN result'
    /\ result'.level_id = levels[i].id

\* C19, amended: the same, except that the level a manual hit marks takes the
\* hit_price of the request when one is given.
C19_BreakevenMoveOrOverride ==
    [][(result'.op \in {"process_all_trades", "apply_manual_level_hit"}
        /\ result'.error = OK) =>
          \A i \in DOMAIN levels :
              levels'[i].price = IF OverriddenByRequest(i) THEN Val(result'.hit_price)
                                 ELSE BreakevenPrice(i)]_vars

\* A manual hit with a hit_price marked a flagged TP level: the level has the
\* hit_price, the Pending SL level of its trade is at the entry price, and
\* the Pending SL level of the other trade is not at that trade's entry price.
C19_Witness ==
    /\ result.op = "apply_manual_level_hit"
    /\ result.error = OK
    /\ "hit_price" \in DOMAIN result
    /\ \E i, j, k \in DOMAIN levels :
          /\ levels[i].id = result.level_id
          /\ levels[i].level_type = TP
          /\ levels[i].move_sl_to_breakeven
          /\ levels[i].status = HIT
          /\ levels[i].price = Val(result.hit_price)
          /\ levels[j].trade_id = levels[i].trade_id
          /\ levels[j].level_type = SL
          /\ levels[j].status = PENDING
          /\ levels[j].price = trades[levels[j].trade_id].entry_price
          /\ levels[k].trade_id # levels[i].trade_id
          /\ levels[k].level_type = SL
          /\ levels[k].status = PENDING
          /\ levels[k].price # trades[levels[k].trade_id].entry_price

\* The step settles the trade: a manual hit or the batch run over a layered
\* trade takes it to Close.
Settles(t) ==
    /\ trades[t].status # CLOSE
    /\ trades'[t].status = CLOSE
    /\ \/ result'.op = "apply_manual_level_hit"
       \/ result'.op = "process_all_trades" /\ trades[t].is_layered

\* The Hit levels of the trade after the step.
HitLevelsNext(t) == SeqFilter(LevelsNext(t), LAMBDA l : l.status = HIT)

\* The units closed by the trade's Hit levels of one type after the step.
UnitsHitNext(t, type) ==
    SeqSum(SeqFilter(HitLevelsNext(t), LAMBDA l : l.level_type = type), UnitsClosedOr0)

\* C20: a step that settles a trade leaves it with exit_date = the latest
\* hit_date of its Hit levels and exit_type = TP when its Hit TP levels closed
\* at least as many units as its Hit SL levels, SL otherwise.
C20_SettlementDateAndType ==
    [][\A t \in DOMAIN trades :
          Settles(t) =>
              /\ HitLevelsNext(t) # <<>>
              /\ trades'[t].exit_date =
                     Some(SeqMax(HitLevelsNext(t), LAMBDA l : Val(l.hit_date)))
              /\ trades'[t].exit_type =
                     Some(IF UnitsHitNext(t, TP) >= UnitsHitNext(t, SL) THEN TP ELSE SL)]_vars

\* A trade was settled by an SL hit that came after a TP hit of an earlier
\* day and closed as many units as the TP hit: the exit type is TP and the
\* exit date is the day of the SL hit.
C20_Witness ==
    \E t \in TradeIds : \E i, j \in DOMAIN levels :
        /\ trades[t].status = CLOSE
        /\ trades[t].exit_type = Some(TP)
        /\ levels[i].trade_id = t /\ levels[i].level_type = TP /\ levels[i].status = HIT
        /\ levels[j].trade_id = t /\ levels[j].level_type = SL /\ levels[j].status = HIT
        /\ Val(levels[j].hit_date) > Val(levels[i].hit_date)
        /\ trades[t].exit_date = levels[j].hit_date
        /\ Val(levels[j].units_closed) > 0
        /\ SeqSum(SeqFilter(LevelsNow(t), LAMBDA l : l.status = HIT /\ l.level_type = TP),
                  UnitsClosedOr0)
             = SeqSum(SeqFilter(LevelsNow(t), LAMBDA l : l.status = HIT /\ l.level_type = SL),
                      UnitsClosedOr0)

\* The store holds the single Open long trade of 100 units with the levels
\* TP 50% at 110, 30% at 120, 20% at 130 and SL 100% at 95.
ThreeTpTradeOpen ==
    /\ Len(trades) = 1
    /\ trades[1].status = OPEN
    /\ trades[1].units = 100
    /\ trades[1].entry_price = 100
    /\ [i \in DOMAIN levels |->
           [level_type |-> levels[i].level_type, price |-> levels[i].price,
            units_pct |-> levels[i].units_pct,
            move_sl_to_breakeven |-> levels[i].move_sl_to_breakeven]] = ThreeTp

\* The bar of the given day has this high and this low.
BarIs(day, high, low) ==
    /\ day \in DOMAIN bars
    /\ bars[day].high = Some(high)
    /\ bars[day].low = Some(low)

\* The type, rank, day and units of the layered alerts of the step's response.
HitsReported ==
    [k \in DOMAIN result'.layered_alerts |->
        << result'.layered_alerts[k].level_type, result'.layered_alerts[k].level_index,
           result'.layered_alerts[k].hit_date, result'.layered_alerts[k].units_closed >>]

\* C21: on the 100-unit trade with TP 50%@110, 30%@120, 20%@130 and SL@95,
\* a batch run over the bar (112, 99) reports the single hit TP1 with 50 units
\* and leaves the trade Open with 50 units remaining; a further run after the
\* bar (135, 99) is added reports TP2 with 30 units and TP3 with 20 units on
\* that bar and closes the trade with 0 units remaining, exit_type TP and
\* exit_price 117.
C21_ThreeTpScenario ==
    [][(ThreeTpTradeOpen /\ result'.op = "process_all_trades") =>
          /\ (/\ bars = << [date |-> 1, high |-> Some(112), low |-> Some(99)] >>
              /\ trades[1].remaining_units = 100
              /\ \A i \in DOMAIN levels : levels[i].status = PENDING)
                 => /\ HitsReported = << <<TP, 1, 1, 50>> >>
                    /\ trades'[1].remaining_units = 50
                    /\ trades'[1].status = OPEN
                    /\ levels'[1].status = HIT
                    /\ \A i \in 2..4 : levels'[i].status = PENDING
          /\ (/\ Len(bars) = 2 /\ BarIs(1, 112, 99) /\ BarIs(2, 135, 99)
              /\ trades[1].remaining_units = 50
              /\ levels[1].status = HIT
              /\ \A i \in 2..4 : levels[i].status = PENDING)
                 => /\ HitsReported = << <<TP, 2, 2, 30>>, <<TP, 3, 2, 20>> >>
                    /\ trades'[1].remaining_units = 0
                    /\ trades'[1].status = CLOSE
                    /\ trades'[1].exit_type = Some(TP)
                    /\ ~IsNone(trades'[1].exit_price)
                    /\ Val(trades'[1].exit_price)[1] = 117 * Val(trades'[1].exit_price)[2]]_vars

\* The second run of the scenario has ended: TP1 was hit on day 1, TP2 and
\* TP3 on day 2, and the trade is Close at 117.
C21_Witness ==
    /\ Len(trades) = 1
    /\ trades[1].units = 100
    /\ trades[1].status = CLOSE
    /\ result.op = "process_all_trades"
    /\ Len(result.layered_alerts) = 2
    /\ BarIs(1, 112, 99) /\ BarIs(2, 135, 99)
    /\ Len(levels) = 4
    /\ levels[1].hit_date = Some(1) /\ levels[1].units_closed = Some(50)
    /\ levels[2].hit_date = Some(2) /\ levels[2].units_closed = Some(30)
    /\ levels[3].price = 130
    /\ levels[3].hit_date = Some(2) /\ levels[3].units_closed = Some(20)
    /\ trades[1].exit_price = Some(Frac(11700, 100))

\* The days on or after date_planned whose bar has a high and a low and
\* crosses the trade's entry price (long: low <= entry, short: high >= entry).
EntryDays(t) ==
    {d \in DOMAIN bars :
        /\ bars[d].date >= Val(trades[t].date_planned)
        /\ ~IsNone(bars[d].high)
        /\ ~IsNone(bars[d].low)
        /\ IF is_long_trade(Store, t)
           THEN Val(bars[d].low) <= trades[t].entry_price
           ELSE Val(bars[d].high) >= trades[t].entry_price}

\* The least element of a non-empty set of days.
Earliest(days) == CHOOSE d \in days : \A e \in days : d <= e

\* C22: detect_entry_hit gives no result for a trade that is not in Plan or
\* that has no bar on or after date_planned with both values that crosses
\* the entry price, and the date of the earliest such bar otherwise.
C22_EntryHitIsEarliestCrossing ==
    \A t \in TradeIds :
        detect_entry_hit(Store, t) =
            IF trades[t].status # PLAN \/ EntryDays(t) = {} THEN None
            ELSE Some([hit_date |-> bars[Earliest(EntryDays(t))].date,
                       entry_price |-> trades[t].entry_price])

\* A planned trade whose first bar has both values and does not cross the
\* entry price has its entry hit on the second bar.
C22_Witness ==
    \E t \in TradeIds :
        /\ trades[t].status = PLAN
        /\ trades[t].date_planned = Some(1)
        /\ Len(bars) = 2
        /\ ~IsNone(bars[1].high) /\ ~IsNone(bars[1].low)
        /\ result.op = "process_all_trades"
        /\ Len(result.entry_alerts) = 1
        /\ result.entry_alerts[1].hit_date = 2
        /\ detect_entry_hit(Store, t) = Some([hit_date |-> 2, entry_price |-> 100])

\* The price of the trade's level of the given type (a simple trade has one).
PriceOfType(t, type) ==
    SeqFilter(LevelsNow(t), LAMBDA l : l.level_type = type)[1].price

\* The bar of day d crosses the trade's SL (long: low <= sl_price, short:
\* high >= sl_price).
SlCrossed(t, d) ==
    IF PriceOfType(t, SL) < trades[t].entry_price
    THEN Val(bars[d].low) <= PriceOfType(t, SL)
    ELSE Val(bars[d].high) >= PriceOfType(t, SL)

\* The bar of day d crosses the trade's TP (long: high >= tp_price, short:
\* low <= tp_price).
TpCrossed(t, d) ==
    IF PriceOfType(t, SL) < trades[t].entry_price
    THEN Val(bars[d].high) >= PriceOfType(t, TP)
    ELSE Val(bars[d].low) <= PriceOfType(t, TP)

\* The days on or after date_actual whose bar has both values and crosses
\* the SL or the TP.
ExitDays(t) ==
    {d \in DOMAIN bars :
        /\ bars[d].date >= Val(trades[t].date_actual)
        /\ ~IsNone(bars[d].high)
        /\ ~IsNone(bars[d].low)
        /\ (SlCrossed(t, d) \/ TpCrossed(t, d))}

\* The result is about day d and is what the crossings of that day call for.
ReportsDay(hit, t, d) ==
    /\ hit.hit_date = bars[d].date
    /\ hit.hit_type = IF SlCrossed(t, d) /\ TpCrossed(t, d) THEN BOTH
                      ELSE IF SlCrossed(t, d) THEN SL ELSE TP
    /\ (hit.hit_type = SL => hit.hit_price[1] = PriceOfType(t, SL) * hit.hit_price[2])
    /\ (hit.hit_type = TP => hit.hit_price[1] = PriceOfType(t, TP) * hit.hit_price[2])

\* C23: for a simple trade, detect_sltp_hit gives no result unless the trade
\* is Open and a bar on or after date_actual crosses its SL or its TP; it then
\* reports the earliest such bar: SL at sl_price when only the SL is crossed,
\* TP at tp_price when only the TP is crossed, a conflict when both are.
C23_SltpHitIsEarliestCrossing ==
    \A t \in TradeIds :
        (Len(LevelsNow(t)) = 2 /\ ~trades[t].is_layered) =>
            IF trades[t].status # OPEN \/ ExitDays(t) = {}
            THEN detect_sltp_hit(Store, t) = None
            ELSE /\ ~IsNone(detect_sltp_hit(Store, t))
                 /\ ReportsDay(Val(detect_sltp_hit(Store, t)), t, Earliest(ExitDays(t)))

\* A batch run reported a TP hit on the second bar for a trade opened on the
\* first bar, which has both values and crosses neither threshold.
C23_Witness ==
    /\ result.op = "process_all_trades"
    /\ Len(bars) = 2
    /\ ~IsNone(bars[1].high) /\ ~IsNone(bars[1].low)
    /\ Len(result.sltp_alerts) = 1
    /\ result.sltp_alerts[1].hit_type = TP
    /\ result.sltp_alerts[1].hit_date = 2
    /\ trades[result.sltp_alerts[1].trade_id].date_actual = Some(1)

\* The running remaining-units counter detect_layered_hits starts from.
UnitsAtScanStart(t) ==
    IF trades[t].remaining_units = 0 THEN trades[t].units ELSE trades[t].remaining_units

\* The units of the hits dated before day d.
UnitsBeforeDay(hits, d) ==
    SeqSum(SeqFilter(hits, LAMBDA h : h.hit_date < d), LAMBDA h : h.units_to_close)

\* The bar of day d has both values and crosses the level (long: SL by
\* low <= price, TP by high >= price; short: SL by high >= price, TP by
\* low <= price).
LevelCrossed(t, l, d) ==
    /\ ~IsNone(bars[d].high)
    /\ ~IsNone(bars[d].low)
    /\ IF is_long_trade(Store, t) <=> l.level_type = SL
       THEN Val(bars[d].low) <= l.price
       ELSE Val(bars[d].high) >= l.price

\* The days on or after date_actual that the scan examines while units
\* remain and whose bar crosses the level.
CrossingDays(t, l, hits) ==
    {d \in DOMAIN bars :
        /\ bars[d].date >= Val(trades[t].date_actual)
        /\ UnitsBeforeDay(hits, d) < UnitsAtScanStart(t)
        /\ LevelCrossed(t, l, d)}

\* hits is in ascending date order and, within a day, in ascending
\* (level_type, order_index) order, "sl" before "tp".
InScanOrder(hits) ==
    \A j, k \in DOMAIN hits :
        j < k =>
            \/ hits[j].hit_date < hits[k].hit_date
            \/ /\ hits[j].hit_date = hits[k].hit_date
               /\ \/ /\ LevelById(Store, hits[j].level_id).level_type = SL
                     /\ LevelById(Store, hits[k].level_id).level_type = TP
                  \/ /\ LevelById(Store, hits[j].level_id).level_type
                           = LevelById(Store, hits[k].level_id).level_type
                     /\ LevelById(Store, hits[j].level_id).order_index
                           < LevelById(Store, hits[k].level_id).order_index

\* The hits are those of the trade's Pending levels that have a crossing day,
\* each once and dated with its first crossing day.
HitsAreFirstCrossings(t, hits) ==
    /\ \A j, k \in DOMAIN hits : hits[j].level_id = hits[k].level_id => j = k
    /\ \A k \in DOMAIN hits :
          /\ LevelById(Store, hits[k].level_id).trade_id = t
          /\ LevelById(Store, hits[k].level_id).status = PENDING
    /\ \A i \in DOMAIN levels :
          (levels[i].trade_id = t /\ levels[i].status = PENDING) =>
              IF CrossingDays(t, levels[i], hits) = {}
              THEN \A k \in DOMAIN hits : hits[k].level_id # levels[i].id
              ELSE \E k \in DOMAIN hits :
                      /\ hits[k].level_id = levels[i].id
                      /\ hits[k].hit_date
                            = bars[Earliest(CrossingDays(t, levels[i], hits))].date

\* C24: the hits detect_layered_hits returns for an Open trade are in
\* ascending date order and, within a day, in (level_type, order_index)
\* order; they hold each Pending level crossed by a bar examined while units
\* remain, once, dated with the first such bar, and nothing else.
C24_HitsOrderedAndComplete ==
    \A t \in TradeIds :
        (trades[t].status = OPEN /\ ~IsNone(trades[t].date_actual)) =>
            /\ InScanOrder(detect_layered_hits(Store, t))
            /\ HitsAreFirstCrossings(t, detect_layered_hits(Store, t))

\* A batch run reported a TP hit of the first day, then an SL hit and two TP
\* hits of the second day in rank order.
C24_Witness ==
    /\ result.op = "process_all_trades"
    /\ Len(result.layered_alerts) = 4
    /\ [k \in 1..4 |-> << result.layered_alerts[k].hit_date,
                          result.layered_alerts[k].level_type,
                          result.layered_alerts[k].level_index >>]
           = << <<1, TP, 1>>, <<2, SL, 1>>, <<2, TP, 2>>, <<2, TP, 3>> >>

\* The units of the hits that precede the k-th.
UnitsBeforeHit(hits, k) == SeqSum(SubSeq(hits, 1, k - 1), LAMBDA h : h.units_to_close)

\* C25: every hit detect_layered_hits returns for an Open trade is recorded
\* while the running remaining-units counter is above zero and closes at
\* least 1 unit.
C25_NoHitAfterUnitsRunOut ==
    \A t \in TradeIds :
        (trades[t].status = OPEN /\ ~IsNone(trades[t].date_actual)) =>
            \A k \in DOMAIN detect_layered_hits(Store, t) :
                /\ UnitsBeforeHit(detect_layered_hits(Store, t), k) < UnitsAtScanStart(t)
                /\ detect_layered_hits(Store, t)[k].units_to_close >= 1

\* The bars on or after date_actual cross every TP level of the trade and no
\* SL level.
BarsCrossEveryTpAndNoSl(t) ==
    \A i \in DOMAIN levels :
        levels[i].trade_id = t =>
            IF levels[i].level_type = TP
            THEN \E d \in DOMAIN bars :
                    /\ bars[d].date >= Val(trades[t].date_actual)
                    /\ LevelCrossed(t, levels[i], d)
            ELSE \A d \in DOMAIN bars :
                    bars[d].date >= Val(trades[t].date_actual)
                        => ~LevelCrossed(t, levels[i], d)

\* C26: a batch run over an Open layered trade with all its units and all
\* its levels Pending, whose bars cross every TP level and no SL level,
\* leaves every TP level Hit, remaining_units 0 and the trade Close.
C26_AllTpCrossedClosesTrade ==
    [][result'.op = "process_all_trades" =>
          \A t \in DOMAIN trades :
              (/\ trades[t].status = OPEN
               /\ trades[t].is_layered
               /\ trades[t].remaining_units = trades[t].units
               /\ \A i \in DOMAIN levels :
                      levels[i].trade_id = t => levels[i].status = PENDING
               /\ BarsCrossEveryTpAndNoSl(t))
                  => /\ \A i \in DOMAIN levels :
                            (levels[i].trade_id = t /\ levels[i].level_type = TP)
                                => levels'[i].status = HIT
                     /\ trades'[t].remaining_units = 0
                     /\ trades'[t].status = CLOSE]_vars

\* The days from day d0 on whose bar has both values and crosses the SL or
\* the TP of the simple trade.
ExitDaysFrom(t, d0) ==
    {d \in DOMAIN bars :
        /\ bars[d].date >= d0
        /\ ~IsNone(bars[d].high)
        /\ ~IsNone(bars[d].low)
        /\ (SlCrossed(t, d) \/ TpCrossed(t, d))}

\* The positions of the trade's Pending levels crossed by the bar of day d.
CrossedOn(t, d) ==
    {i \in DOMAIN levels :
        /\ levels[i].trade_id = t
        /\ levels[i].status = PENDING
        /\ LevelCrossed(t, levels[i], d)}

\* The days from day d0 on whose bar crosses a Pending level of the trade.
LevelDaysFrom(t, d0) ==
    {d \in DOMAIN bars : bars[d].date >= d0 /\ CrossedOn(t, d) # {}}

\* A simple trade opened on day d0: when the first bar from d0 on that
\* crosses a threshold crosses exactly one, the trade ends the batch Close
\* on that threshold and that day.
SimpleExitInSameBatch(t, d0) ==
    (/\ ExitDaysFrom(t, d0) # {}
     /\ ~(/\ SlCrossed(t, Earliest(ExitDaysFrom(t, d0)))
          /\ TpCrossed(t, Earliest(ExitDaysFrom(t, d0)))))
        => /\ trades'[t].status = CLOSE
           /\ trades'[t].exit_date = Some(Earliest(ExitDaysFrom(t, d0)))
           /\ trades'[t].exit_type =
                  Some(IF SlCrossed(t, Earliest(ExitDaysFrom(t, d0))) THEN SL ELSE TP)

\* A layered trade opened on day d0: when the first bar from d0 on that
\* crosses a level crosses levels of one type only, those levels end the
\* batch Hit on that day.
LayeredExitInSameBatch(t, d0) ==
    (/\ LevelDaysFrom(t, d0) # {}
     /\ \A i, j \in CrossedOn(t, Earliest(LevelDaysFrom(t, d0))) :
            levels[i].level_type = levels[j].level_type)
        => \A i \in CrossedOn(t, Earliest(LevelDaysFrom(t, d0))) :
               /\ levels'[i].status = HIT
               /\ levels'[i].hit_date = Some(Earliest(LevelDaysFrom(t, d0)))

\* C27: a batch run opens a planned paper trade whose entry is crossed, with
\* date_actual = the first entry day, and evaluates it for exits in the same
\* run: a simple trade ends the run Close, a layered one with its crossed
\* levels Hit.
C27_OpenedTradeExitsInSameBatch ==
    [][result'.op = "process_all_trades" =>
          \A t \in DOMAIN trades :
              (/\ trades[t].status = PLAN
               /\ trades[t].paper_trade
               /\ EntryDays(t) # {})
                  => /\ trades'[t].status # PLAN
                     /\ trades'[t].date_actual = Some(Earliest(EntryDays(t)))
                     /\ IF trades[t].is_layered
                        THEN LayeredExitInSameBatch(t, Earliest(EntryDays(t)))
                        ELSE SimpleExitInSameBatch(t, Earliest(EntryDays(t)))]_vars

\* One batch run took a simple paper trade from Plan to Close, with the
\* entry on the first day and the exit on the second.
C27_Witness ==
    /\ result.op = "process_all_trades"
    /\ result.auto_opened_count = 1
    /\ result.entry_alerts[1].hit_date = 1
    /\ Len(result.sltp_alerts) = 1
    /\ result.sltp_alerts[1].hit_date = 2
    /\ trades[1].status = CLOSE
    /\ result.log = << <<1, PLAN, OPEN>>, <<1, OPEN, CLOSE>> >>

\* The number of status changes from one status to another that the step's
\* batch run made.
StatusChanges(from, to) ==
    Len(SeqFilter(result'.log, LAMBDA e : e[2] = from /\ e[3] = to))

\* The number of exit levels the step turns from Pending to Hit.
LevelsMarkedHit ==
    Cardinality({i \in DOMAIN levels :
                    levels[i].status = PENDING /\ levels'[i].status = HIT})

\* C28: the counts a batch run returns are the numbers of trades it took
\* from Plan to Open and from Open to Close, of levels it took from Pending
\* to Hit, and of trades it reports as conflicts.
C28_CountsMatchChanges ==
    [][(result'.op = "process_all_trades" /\ result'.error = OK) =>
          /\ result'.auto_opened_count = StatusChanges(PLAN, OPEN)
          /\ result'.auto_closed_count = StatusChanges(OPEN, CLOSE)
          /\ result'.partial_close_count = LevelsMarkedHit
          /\ result'.conflict_count =
                 Len(SeqFilter(result'.sltp_alerts, LAMBDA a : a.hit_type = BOTH))]_vars

\* The trade's row and its levels.
TradeAndLevels(S, t) == <<S.trades[t], LevelsOf(S, t)>>

\* What a batch run reports about the trade.
AlertsAbout(r, t) ==
    << SeqFilter(r.entry_alerts, LAMBDA a : a.trade_id = t),
       SeqFilter(r.sltp_alerts, LAMBDA a : a.trade_id = t),
       SeqFilter(r.layered_alerts, LAMBDA a : a.trade_id = t) >>

\* C29: when a batch run over several trades ends with an error raised
\* while it processed one trade, every other trade is as the batch leaves it
\* when nothing fails, and the alerts about it are reported.
C29_ErrorDoesNotAbortBatch ==
    [][(result'.op = "process_all_trades" /\ result'.error # OK) =>
          \A t \in DOMAIN trades :
              t # result'.in_flight.trade_id =>
                  /\ <<trades'[t], LevelsOf([levels |-> levels'], t)>>
                         = TradeAndLevels(process_all_trades(Store).S, t)
                  /\ AlertsAbout(result', t) = AlertsAbout(process_all_trades(Store), t)]_vars

\* The request asks to close a trade that is open.
ManualClose ==
    /\ result'.op = "update_trade"
    /\ "updates" \in DOMAIN result'
    /\ trades[result'.trade_id].status = OPEN
    /\ result'.updates.status = Some(CLOSE)

\* The field is neither in the request nor on the trade.
ExitPriceMissing ==
    IsNone(result'.updates.exit_price) /\ IsNone(trades[result'.trade_id].exit_price)

ExitTypeMissing ==
    IsNone(result'.updates.exit_type) /\ IsNone(trades[result'.trade_id].exit_type)

\* The given date, else the date already on the trade, else today.
ExitDateOfClose ==
    IF ~IsNone(result'.updates.exit_date) THEN result'.updates.exit_date
    ELSE IF ~IsNone(trades[result'.trade_id].exit_date)
    THEN trades[result'.trade_id].exit_date
    ELSE Some(Today)

IllegalTransition ==
    /\ result'.op = "update_trade"
    /\ "updates" \in DOMAIN result'
    /\ ~IsNone(result'.updates.status)
    /\ \/ /\ trades[result'.trade_id].status = PLAN
          /\ result'.updates.status = Some(CLOSE)
       \/ trades[result'.trade_id].status = CLOSE

\* C31: update_trade refuses with TradeUpdateError a request to close a Plan
\* trade and any request to set a status on a Close trade, and leaves every
\* trade and every exit level as it was, whatever else the request carries.
C31_IllegalTransitionChangesNothing ==
    [][IllegalTransition =>
          /\ result'.error = TradeUpdateError
          /\ trades' = trades
          /\ levels' = levels]_vars

\* A request to close a Plan trade that also carried a valid level set was
\* refused.
C31_Witness ==
    /\ result.op = "update_trade"
    /\ "updates" \in DOMAIN result
    /\ result.updates.status = Some(CLOSE)
    /\ result.updates.exit_levels = Some(PairLong)
    /\ result.error = TradeUpdateError
    /\ trades[result.trade_id].status = PLAN

\* The request marks a level of a trade that is Plan or Close.
ManualHitOnTradeNotOpen ==
    /\ result'.op = "apply_manual_level_hit"
    /\ "level_id" \in DOMAIN result'
    /\ result'.level_id \in LevelIds(Store)
    /\ trades[LevelById(Store, result'.level_id).trade_id].status # OPEN

StoreNext == [trades |-> trades', levels |-> levels', next_id |-> next_id', log |-> <<>>]

\* C33: a batch run or a manual level hit leaves the derived direction of
\* every trade (stop-loss price below the entry price) as it was, a hit
\* that moves the Pending SL levels to breakeven included.
C33_DirectionNeverChanges ==
    [][(result'.op \in {"process_all_trades", "apply_manual_level_hit"}) =>
          \A t \in DOMAIN trades :
              is_long_trade(StoreNext, t) = is_long_trade(Store, t)]_vars

\* Units closed by the trade's Hit levels.
UnitsClosedByHits(t) ==
    SeqSum(SeqFilter(LevelsOf(Store, t), LAMBDA l : l.status = HIT), UnitsClosedOr0)

\* C34: in every state, for every trade, the remaining units plus the units
\* closed by its Hit levels equal the trade's units.
C34_UnitsConserved ==
    \A t \in DOMAIN trades :
        trades[t].remaining_units + UnitsClosedByHits(t) = trades[t].units

\* C35: in every state, an exit level has a hit date and closed units
\* exactly when its status is Hit.
C35_HitFieldsOnlyWhenHit ==
    \A i \in DOMAIN levels :
        /\ ~IsNone(levels[i].hit_date) <=> levels[i].status = HIT
        /\ ~IsNone(levels[i].units_closed) <=> levels[i].status = HIT

\* A level that was Hit has been reverted and carries neither field.
C35_Witness ==
    /\ result.op = "revert_level_hit"
    /\ result.error = OK
    /\ LevelById(Store, result.level_id).status = PENDING
    /\ IsNone(LevelById(Store, result.level_id).hit_date)
    /\ IsNone(LevelById(Store, result.level_id).units_closed)

\* The level keeps its row and its status in the step.
KeepsStatus(i) ==
    \E j \in DOMAIN levels' :
        levels'[j].id = levels[i].id /\ levels'[j].status = levels[i].status

\* The level is Hit before the step and Pending after it.
BackToPending(i) ==
    /\ levels[i].status = HIT
    /\ \E j \in DOMAIN levels' :
           levels'[j].id = levels[i].id /\ levels'[j].status = PENDING

\* C36: a Cancelled level stays Cancelled in every step, and a Hit level
\* becomes Pending again only by revert_level_hit on a trade that is Open.
C36_CancelledIsTerminal ==
    [][\A i \in DOMAIN levels :
          /\ levels[i].status = CANCELLED => KeepsStatus(i)
          /\ BackToPending(i) =>
                 /\ result'.op = "revert_level_hit"
                 /\ trades[levels[i].trade_id].status = OPEN]_vars

\* A revert of a Cancelled level was refused and the level is still
\* Cancelled.
C36_Witness ==
    /\ result.op = "revert_level_hit"
    /\ result.error # OK
    /\ LevelById(Store, result.level_id).status = CANCELLED

\* C37: when detect_layered_hits has returned, every exit level and every
\* trade is as it was before the call, whatever hits it found.
C37_DetectionLeavesNoTrace ==
    [][result'.op = "detect_layered_hits" =>
          /\ levels' = levels
          /\ trades' = trades]_vars

\* A call that found two hits on one trade.
C37_Witness ==
    /\ result.op = "detect_layered_hits"
    /\ Len(result.hits) >= 2

\* The hit dates of the trade's Hit levels.
HitDates(t) ==
    {Val(levels[i].hit_date) : i \in {j \in DOMAIN levels :
                                          /\ levels[j].trade_id = t
                                          /\ levels[j].status = HIT}}

\* C38: for a trade that only the batch has moved, the planned date is not
\* after the date it was opened, no Hit level is dated before the opening,
\* and the exit date of a Close trade is before neither the opening nor a
\* Hit level's date.
C38_DatesOrdered ==
    \A t \in DOMAIN trades :
        /\ ~IsNone(trades[t].date_actual) =>
               /\ Val(trades[t].date_planned) <= Val(trades[t].date_actual)
               /\ \A d \in HitDates(t) : d >= Val(trades[t].date_actual)
        /\ trades[t].status = CLOSE =>
               /\ ~IsNone(trades[t].exit_date)
               /\ Val(trades[t].exit_date) >= Val(trades[t].date_actual)
               /\ \A d \in HitDates(t) : Val(trades[t].exit_date) >= d

\* A trade planned on day 2 that the batch opened and closed with a hit of
\* one of its levels.
C38_Witness ==
    /\ trades[1].status = CLOSE
    /\ trades[1].date_planned = Some(2)
    /\ HitDates(1) # {}

\* C39: in every state, two different exit levels of one trade and one
\* type have different order_index values.
C39_OrderIndexUnique ==
    \A i \in DOMAIN levels, j \in DOMAIN levels :
        (/\ i # j
         /\ levels[i].trade_id = levels[j].trade_id
         /\ levels[i].level_type = levels[j].level_type) =>
            levels[i].order_index # levels[j].order_index

\* C39, amended: the levels of each type that one call creates carry the
\* order_index values 1, 2, 3, ... in input order and are Pending; a Hit
\* level that replace_exit_levels keeps may share its index with a new one.
C39_CreatedLevelsIndexedFromOne ==
    [][\A ty \in {SL, TP} :
          \A k \in DOMAIN CreatedOfType(ty) :
              /\ CreatedOfType(ty)[k].order_index = k
              /\ CreatedOfType(ty)[k].status = PENDING]_vars

\* replace_exit_levels created a level of the type and with the index of a
\* Hit level it kept.
C39_Witness ==
    /\ result.op = "replace_exit_levels"
    /\ result.error = OK
    /\ \E i, j \in DOMAIN levels :
          /\ levels[i].status = HIT
          /\ levels[j].status = PENDING
          /\ levels[j].id > levels[i].id
          /\ levels[j].level_type = levels[i].level_type
          /\ levels[j].order_index = levels[i].order_index

\* The step is a level replacement, direct or through update_trade, that
\* ended with the validation error.
ReplacementRefused ==
    /\ result'.op \in {"replace_exit_levels", "update_trade"}
    /\ result'.error = ExitLevelValidationError

\* The step is an update of a trade with a level set whose TP levels sum to
\* 80%, and no status in the request is refused.
UpdateWithBadSet ==
    /\ result'.op = "update_trade"
    /\ "updates" \in DOMAIN result'
    /\ result'.updates.exit_levels = Some(BadSet)
    /\ result'.error # TradeUpdateError

====
